---- MODULE Spec2Model ----
(***************************************************************************)
(* Model of the DynamicDiscoverySharedInformerFactory of kcp                *)
(* (package informer): the registry of per-resource-type informers, the    *)
(* discovery pass that reconciles it, the polling loop that drives the     *)
(* passes, the event fan-out to the registered GVREventHandlers, and the   *)
(* informer goroutines the factory starts and stops.                       *)
(*                                                                         *)
(* Every section the code runs under d.mu (shared or exclusive) or under   *)
(* d.handlersLock is one atomic action; the steps of one call that are     *)
(* separated by a lock release are separate actions.                       *)
(***************************************************************************)
EXTENDS Integers, Sequences, FiniteSets, TLC

(***************************************************************************)
(* Bounds of the model.                                                    *)
(***************************************************************************)
\* informers ever created by the factory
MaxInformers == 3
\* GVREventHandlers that callers register
MaxHandlers == 2
\* notifications the informers observe, all informers together
MaxEvents == 3

(***************************************************************************)
(* Values.                                                                 *)
(***************************************************************************)
\* schema.GroupVersionResource; a resource name is kept as its "/"-separated
\* segments, so that strings.Contains(name, "/") is Len(name) > 1.
GVR(g, v, r) == [Group |-> g, Version |-> v, Resource |-> r]

crdGVR == GVR("apiextensions.k8s.io", "v1", <<"customresourcedefinitions">>)
apibindingsGVR == GVR("apis.kcp.dev", "v1alpha1", <<"apibindings">>)

gvrA == GVR("example.dev", "v1", <<"as">>)
gvrB == GVR("example.dev", "v1", <<"bs">>)
gvrC == GVR("example.dev", "v1", <<"cs">>)

\* the resource types of the model
GVRs == {gvrA, gvrB, gvrC, crdGVR, apibindingsGVR}

\* the keys calculateInformersLockHeld never removes
PinnedGVRs == {crdGVR, apibindingsGVR}

\* a fixed enumeration of all keys a map of the registry can hold: Go ranges
\* over a map in an unspecified order; the order only decides which model
\* identifier a new informer or channel gets, so one order is explored.
GVROrder == <<gvrA, gvrB, gvrC, crdGVR, apibindingsGVR>>

Range(s) == {s[i] : i \in DOMAIN s}

\* the keys of S as a sequence, in GVROrder
RECURSIVE InOrder(_, _)
InOrder(S, ord) ==
    IF ord = <<>> THEN <<>>
    ELSE IF Head(ord) \in S THEN <<Head(ord)>> \o InOrder(S, Tail(ord))
    ELSE InOrder(S, Tail(ord))

(***************************************************************************)
(* Discovery input: what the workspace lister and the discovery client of  *)
(* each logical cluster answer during one pass.                            *)
(***************************************************************************)
APIResource(n, ns, vs) == [Name |-> n, Namespaced |-> ns, Verbs |-> vs]
APIResourceList(gv, rs) == [GroupVersion |-> gv, APIResources |-> rs]

AllVerbs == {"get", "list", "watch", "create", "delete"}

resA == APIResource(<<"as">>, TRUE, AllVerbs)
resB == APIResource(<<"bs">>, TRUE, AllVerbs)
resC == APIResource(<<"cs">>, TRUE, AllVerbs)
resAStatus == APIResource(<<"as", "status">>, TRUE, AllVerbs)
resNoWatch == APIResource(<<"ds">>, TRUE, {"get", "list"})
resNoList == APIResource(<<"es">>, TRUE, {"get", "watch"})
resCluster == APIResource(<<"fs">>, FALSE, AllVerbs)
resCRD == APIResource(<<"customresourcedefinitions">>, FALSE, AllVerbs)

\* a group/version string as its "/"-separated segments
gvExample == <<"example.dev", "v1">>
gvCore == <<"v1">>
gvApiextensions == <<"apiextensions.k8s.io", "v1">>
gvMalformed == <<"example.dev", "v1", "extra">>

\* the (value, error) pairs of the calls discoverTypes makes
Ok(v) == [err |-> FALSE, val |-> v]
Failed == [err |-> TRUE, val |-> {}]

\* the answers of ServerPreferredResources the model draws from
ServerResources ==
    { Failed,
      Ok({}),
      Ok({APIResourceList(gvExample, {resA, resB})}),
      Ok({APIResourceList(gvExample, {resB, resC})}),
      Ok({APIResourceList(gvExample, {resC, resAStatus, resNoWatch, resNoList, resCluster}),
          APIResourceList(gvApiextensions, {resCRD})}),
      Ok({APIResourceList(gvExample, {resA}), APIResourceList(gvMalformed, {resB})}) }

\* a ClusterWorkspace: the logical cluster it lives in and its name
wsOne == [Cluster |-> "root:org", Name |-> "one"]
wsTwo == [Cluster |-> "root:org", Name |-> "two"]

\* logicalcluster.From(ws).Join(ws.Name)
LogicalClusterName(ws) == <<ws.Cluster, ws.Name>>

\* the answers of workspaceLister.List the model draws from
WorkspaceLists ==
    { [err |-> TRUE, val |-> <<>>], Ok(<<>>), Ok(<<wsOne>>), Ok(<<wsOne, wsTwo>>) }

rsA == Ok({APIResourceList(gvExample, {resA})})
rsAB == Ok({APIResourceList(gvExample, {resA, resB})})
rsBC == Ok({APIResourceList(gvExample, {resB, resC})})

\* one input per answer of the lister and of the clusters it lists
DiscoveryInputs ==
    {[workspaces |-> w, resources |-> <<>>] : w \in {x \in WorkspaceLists : Len(x.val) = 0}}
    \cup {[workspaces |-> Ok(<<wsOne>>), resources |-> <<r>>] : r \in ServerResources}
    \cup {[workspaces |-> Ok(<<wsOne, wsTwo>>), resources |-> rs] :
            rs \in {<<rsAB, rsBC>>, <<rsAB, Failed>>, <<Failed, rsBC>>, <<rsBC, Ok({})>>}}

\* schema.ParseGroupVersion: "v" is the core group, "g/v" a group and a
\* version, anything with more separators is an error.
ParseGroupVersion(gv) ==
    IF Len(gv) = 1 THEN [err |-> FALSE, Group |-> "", Version |-> gv[1]]
    ELSE IF Len(gv) = 2 THEN [err |-> FALSE, Group |-> gv[1], Version |-> gv[2]]
    ELSE [err |-> TRUE, Group |-> "", Version |-> ""]

\* KeptOfList with a test for "list" only in place of HasAll("list", "watch")
KeptOfListOnlyList(gv, list) ==
    { GVR(gv.Group, gv.Version, ai.Name) :
        ai \in { r \in list.APIResources :
                    /\ ~(Len(r.Name) > 1)
                    /\ r.Namespaced
                    /\ "list" \in r.Verbs } }

\* KeptOfList without the test on "/" in the name of the resource
KeptOfListWithSubresources(gv, list) ==
    { GVR(gv.Group, gv.Version, ai.Name) :
        ai \in { r \in list.APIResources :
                    /\ r.Namespaced
                    /\ {"list", "watch"} \subseteq r.Verbs } }

\* the inner loop of discoverTypes over one APIResourceList: the resources kept
KeptOfList(gv, list) ==
    { GVR(gv.Group, gv.Version, ai.Name) :
        ai \in { r \in list.APIResources :
                    /\ ~(Len(r.Name) > 1)
                    /\ r.Namespaced
                    /\ {"list", "watch"} \subseteq r.Verbs } }

\* the loop of discoverTypes over the APIResourceLists of one logical cluster
KeptOfCluster(rs) ==
    IF \E r \in rs : ParseGroupVersion(r.GroupVersion).err
    THEN Failed
    ELSE Ok(UNION { KeptOfList(ParseGroupVersion(r.GroupVersion), r) : r \in rs })

\* DiscoverLoop going on to the next workspace when a discovery call fails
RECURSIVE DiscoverLoopSkipFailed(_, _, _)
DiscoverLoopSkipFailed(workspaces, resources, latest) ==
    IF workspaces = <<>> THEN Ok(latest)
    ELSE LET rs == Head(resources)
         IN IF rs.err \/ KeptOfCluster(rs.val).err
            THEN DiscoverLoopSkipFailed(Tail(workspaces), Tail(resources), latest)
            ELSE DiscoverLoopSkipFailed(Tail(workspaces), Tail(resources),
                                        latest \cup KeptOfCluster(rs.val).val)

\* the loop of discoverTypes over the workspaces: latest, or the error that
\* ends the pass
RECURSIVE DiscoverLoop(_, _, _)
DiscoverLoop(workspaces, resources, latest) ==
    IF workspaces = <<>> THEN Ok(latest)
    ELSE LET rs == Head(resources)
         IN IF rs.err THEN Failed
            ELSE IF KeptOfCluster(rs.val).err THEN Failed
            ELSE DiscoverLoop(Tail(workspaces), Tail(resources),
                              latest \cup KeptOfCluster(rs.val).val)

\* discoverTypes up to the first use of d.mu
Discover(in) ==
    IF in.workspaces.err THEN Failed
    ELSE DiscoverLoop(in.workspaces.val, in.resources, {})

(***************************************************************************)
(* State of the factory and of the goroutines around it.                   *)
(***************************************************************************)
VARIABLES
    informers,          \* d.informers: GVR -> informer (an identifier of insts)
    startedInformers,   \* d.startedInformers: GVR -> BOOLEAN
    informerStops,      \* d.informerStops: GVR -> stop channel (an identifier of chans)
    terminating,        \* d.terminating
    handlers,           \* d.handlers: the published []GVREventHandler
    handlersLock,       \* d.handlersLock: 0, or the handler whose AddEventHandler holds it
    newHandlers,        \* the local newHandlers of the AddEventHandler holding the lock
    indexers,           \* d.indexers: the names of the indexers added to the factory
    insts,              \* every informer created so far: identifier -> informer
    chans,              \* every stop channel made so far: identifier -> closed
    panicked,           \* the process died of a close of a closed channel
    ppc,                \* where each StartPolling call is
    dpc,                \* where the discoverTypes call of each poller is
    latest,             \* the local latest of that discoverTypes call
    ctxDone,            \* whether the context given to StartPolling is cancelled
    waiting,            \* InformerForResource calls between their RUnlock and their Lock
    added,              \* the handlers whose AddEventHandler call has returned
    ret,                \* what the last step returned or delivered
    observed,           \* informer -> the notifications it has queued for its handler
    handled,            \* informer -> how many of them its handler has finished
    current,            \* informer -> the handler closure that is running
    received,           \* GVREventHandler -> the calls it has got, in order
    mu,                 \* d.mu: the goroutine holding it for writing, those holding it for reading
    lpc,                \* where each goroutine of the lock-level model is
    snapshot,           \* goroutine -> the registry maps as they were at its RLock
    passLocal           \* latest, informersToAdd and informersToRemove of the lock-level pass

vars == <<informers, startedInformers, informerStops, terminating, handlers,
          handlersLock, newHandlers, indexers, insts, chans, panicked, ppc, dpc,
          latest, ctxDone, waiting, added, ret, observed, handled, current,
          received, mu, lpc, snapshot, passLocal>>

\* d.mu and the goroutines that are followed lock operation by lock operation
lockState == <<mu, lpc, snapshot, passLocal>>

\* the notifications in flight and the calls made for them
eventLog == <<observed, handled, current, received>>

\* the registry: what d.mu protects, with the goroutines and channels it owns
registry == <<informers, startedInformers, informerStops, insts, chans, panicked>>

Pollers == {"poller1", "poller2"}
Callers == {"caller1", "caller2"}
Handlers == 1..MaxHandlers

NoRet == [op |-> "none"]

\* the goroutines of the lock-level model: two callers of Listers, a caller of
\* InformerForResource, a caller of Start, and one running discoverTypes
ListerGoroutines == {"lister1", "lister2"}
LockGoroutines == ListerGoroutines \cup {"finder", "starter", "pass"}

\* the locals of a discoverTypes call that is not running
NoPass == [latest |-> {}, toAdd |-> <<>>, toRemove |-> <<>>, failed |-> FALSE]

\* Go maps as functions
MapPut(m, k, v) == [x \in DOMAIN m \cup {k} |-> IF x = k THEN v ELSE m[x]]
MapDelete(m, k) == [x \in DOMAIN m \ {k} |-> m[x]]
EmptyMap == <<>>

\* the registry as one value, for the loops that thread it
Registry(i, s, st, in, ch, pa) ==
    [informers |-> i, startedInformers |-> s, informerStops |-> st,
     insts |-> in, chans |-> ch, panicked |-> pa]

CurrentRegistry ==
    Registry(informers, startedInformers, informerStops, insts, chans, panicked)

(***************************************************************************)
(* The informers (client-go shared index informers) as the factory uses    *)
(* them: created, run once with a stop channel, synced, stopped.           *)
(***************************************************************************)
\* Identifiers of the model for the objects the code holds by reference: the
\* n-th informer created for gvr is <<gvr, n>>, the k-th stop channel made to
\* run informer inf is <<inf, k>>.
NewInformerId(in, gvr) == <<gvr, 1 + Cardinality({i \in DOMAIN in : i[1] = gvr})>>
NewChanId(ch, inf) == <<inf, 1 + Cardinality({c \in DOMAIN ch : c[1] = inf})>>
NoInformer == <<>>
NoChan == <<>>

\* dynamicinformer.NewFilteredDynamicInformer plus the handler closure that
\* captures gvr
NewInformer(gvr) ==
    [gvr |-> gvr, phase |-> "Created", synced |-> FALSE, runs |-> 0, stop |-> NoChan,
     relisting |-> FALSE]

\* go inf.Informer().Run(stop)
Run(inf, stop) ==
    [inf EXCEPT !.runs = @ + 1,
                !.phase = IF inf.phase = "Created" THEN "Syncing" ELSE @,
                !.stop = IF inf.phase = "Created" THEN stop ELSE @]

\* HasSynced that is false while the informer is in a new list+watch cycle
HasSyncedStreamLive(inf) == inf.synced /\ ~inf.relisting

\* inf.Informer().HasSynced()
HasSynced(inf) == inf.synced

\* Running that still holds of an informer whose goroutine has exited
RunningAfterExit(inf) == inf.phase \in {"Syncing", "Synced", "Stopped"}

\* the goroutine of the informer is running
Running(inf) == inf.phase \in {"Syncing", "Synced"}

\* cache.NamespaceIndex, the index every informer is created with
NamespaceIndex == "namespace"
IndexNames == {NamespaceIndex, "byWorkspace"}

\* inf.Informer().AddIndexers(d.indexers) on a new informer: it fails when a
\* name is already an index of the informer
InformerAddIndexers(names) == [err |-> NamespaceIndex \in names]

(***************************************************************************)
(* The registry operations, each run with d.mu held.                       *)
(***************************************************************************)
\* informerForResourceLockHeld without the look-up of d.informers[gvr] that
\* guards the creation
informerForResourceNoRecheck(R, gvr, idx) ==
    IF InformerAddIndexers(idx).err
    THEN [R |-> R, inf |-> NoInformer, err |-> TRUE]
    ELSE [R |-> [R EXCEPT !.insts = MapPut(@, NewInformerId(R.insts, gvr), NewInformer(gvr)),
                          !.informers = MapPut(@, gvr, NewInformerId(R.insts, gvr))],
          inf |-> NewInformerId(R.insts, gvr),
          err |-> FALSE]

\* informerForResourceLockHeld running the informer it creates
informerForResourceStarts(R, gvr, idx) ==
    IF gvr \in DOMAIN R.informers
    THEN [R |-> R, inf |-> R.informers[gvr], err |-> FALSE]
    ELSE IF InformerAddIndexers(idx).err
    THEN [R |-> R, inf |-> NoInformer, err |-> TRUE]
    ELSE [R |-> [R EXCEPT !.insts = MapPut(@, NewInformerId(R.insts, gvr),
                                           Run(NewInformer(gvr),
                                               NewChanId(R.chans, NewInformerId(R.insts, gvr)))),
                          !.informers = MapPut(@, gvr, NewInformerId(R.insts, gvr)),
                          !.chans = MapPut(@, NewChanId(R.chans, NewInformerId(R.insts, gvr)), FALSE),
                          !.informerStops =
                              MapPut(@, gvr, NewChanId(R.chans, NewInformerId(R.insts, gvr))),
                          !.startedInformers = MapPut(@, gvr, TRUE)],
          inf |-> NewInformerId(R.insts, gvr),
          err |-> FALSE]

\* informerForResourceLockHeld: <<registry, informer, err>>
informerForResourceLockHeld(R, gvr, idx) ==
    IF gvr \in DOMAIN R.informers
    THEN [R |-> R, inf |-> R.informers[gvr], err |-> FALSE]
    ELSE IF InformerAddIndexers(idx).err
    THEN [R |-> R, inf |-> NoInformer, err |-> TRUE]
    ELSE [R |-> [R EXCEPT !.insts = MapPut(@, NewInformerId(R.insts, gvr), NewInformer(gvr)),
                          !.informers = MapPut(@, gvr, NewInformerId(R.insts, gvr))],
          inf |-> NewInformerId(R.insts, gvr),
          err |-> FALSE]

\* stop := make(chan struct{}); go inf.Informer().Run(stop);
\* d.informerStops[gvr] = stop; d.startedInformers[gvr] = true
StartInformer(R, gvr, inf) ==
    [R EXCEPT !.chans = MapPut(@, NewChanId(R.chans, inf), FALSE),
              !.insts = [@ EXCEPT ![inf] = Run(@, NewChanId(R.chans, inf))],
              !.informerStops = MapPut(@, gvr, NewChanId(R.chans, inf)),
              !.startedInformers = MapPut(@, gvr, TRUE)]

\* close(stop): closing a closed channel panics
Close(R, stop) ==
    IF R.chans[stop]
    THEN [R EXCEPT !.panicked = TRUE]
    ELSE [R EXCEPT !.chans = [@ EXCEPT ![stop] = TRUE]]

calculateInformersNoFoundCheck(infs, latestSet) ==
    [toAdd |-> latestSet,
     toRemove |-> { gvr \in DOMAIN infs :
                      /\ ~(gvr = crdGVR \/ gvr = apibindingsGVR)
                      /\ gvr \notin latestSet }]

calculateInformersNoPinning(infs, latestSet) ==
    [toAdd |-> { gvr \in latestSet : gvr \notin DOMAIN infs },
     toRemove |-> { gvr \in DOMAIN infs : gvr \notin latestSet }]

\* calculateInformersLockHeld with the pinned keys treated as discovered when
\* informersToAdd is computed
calculateInformersAddsPinned(infs, latestSet) ==
    [toAdd |-> { gvr \in latestSet \cup PinnedGVRs : gvr \notin DOMAIN infs },
     toRemove |-> { gvr \in DOMAIN infs :
                      /\ ~(gvr = crdGVR \/ gvr = apibindingsGVR)
                      /\ gvr \notin latestSet }]

\* calculateInformersLockHeld
calculateInformersLockHeld(infs, latestSet) ==
    [toAdd |-> { gvr \in latestSet : gvr \notin DOMAIN infs },
     toRemove |-> { gvr \in DOMAIN infs :
                      /\ ~(gvr = crdGVR \/ gvr = apibindingsGVR)
                      /\ gvr \notin latestSet }]

\* the loop of discoverTypes over informersToAdd: [R, err]
RECURSIVE AddLoop(_, _, _)
AddLoop(R, toAdd, idx) ==
    IF toAdd = <<>> THEN [R |-> R, err |-> FALSE]
    ELSE LET got == informerForResourceLockHeld(R, Head(toAdd), idx)
         IN IF got.err THEN [R |-> R, err |-> TRUE]
            ELSE AddLoop(StartInformer(got.R, Head(toAdd), got.inf), Tail(toAdd), idx)

\* the keys of informersToAdd for which the loop of discoverTypes calls
\* informerForResourceLockHeld: every key up to the first failure
RECURSIVE AddLoopAttempted(_, _, _)
AddLoopAttempted(R, toAdd, idx) ==
    IF toAdd = <<>> THEN {}
    ELSE LET got == informerForResourceLockHeld(R, Head(toAdd), idx)
         IN IF got.err THEN {Head(toAdd)}
            ELSE {Head(toAdd)}
                 \cup AddLoopAttempted(StartInformer(got.R, Head(toAdd), got.inf),
                                       Tail(toAdd), idx)

\* the key at which the loop of discoverTypes over informersToAdd returns the
\* error, if it does
RECURSIVE AddLoopFailed(_, _, _)
AddLoopFailed(R, toAdd, idx) ==
    IF toAdd = <<>> THEN {}
    ELSE LET got == informerForResourceLockHeld(R, Head(toAdd), idx)
         IN IF got.err THEN {Head(toAdd)}
            ELSE AddLoopFailed(StartInformer(got.R, Head(toAdd), got.inf),
                               Tail(toAdd), idx)

\* RemoveLoop without its close(stop)
RECURSIVE RemoveLoopNoClose(_, _)
RemoveLoopNoClose(R, toRemove) ==
    IF toRemove = <<>> THEN R
    ELSE RemoveLoopNoClose([R EXCEPT !.informers = MapDelete(@, Head(toRemove)),
                                     !.informerStops = MapDelete(@, Head(toRemove)),
                                     !.startedInformers = MapDelete(@, Head(toRemove))],
                           Tail(toRemove))

\* RemoveLoop without the delete of the key from d.startedInformers
RECURSIVE RemoveLoopKeepStarted(_, _)
RemoveLoopKeepStarted(R, toRemove) ==
    IF toRemove = <<>> \/ R.panicked THEN R
    ELSE LET gvr == Head(toRemove)
             closed == IF gvr \in DOMAIN R.informerStops
                       THEN Close(R, R.informerStops[gvr])
                       ELSE R
         IN IF closed.panicked THEN closed
            ELSE RemoveLoopKeepStarted([closed EXCEPT !.informers = MapDelete(@, gvr),
                                                      !.informerStops = MapDelete(@, gvr)],
                                       Tail(toRemove))

\* the loop of discoverTypes over informersToRemove
RECURSIVE RemoveLoop(_, _)
RemoveLoop(R, toRemove) ==
    IF toRemove = <<>> \/ R.panicked THEN R
    ELSE LET gvr == Head(toRemove)
             closed == IF gvr \in DOMAIN R.informerStops
                       THEN Close(R, R.informerStops[gvr])
                       ELSE R
         IN IF closed.panicked THEN closed
            ELSE RemoveLoop([closed EXCEPT !.informers = MapDelete(@, gvr),
                                           !.informerStops = MapDelete(@, gvr),
                                           !.startedInformers = MapDelete(@, gvr)],
                            Tail(toRemove))

\* ReconcileLockHeld without the recalculation under the write lock: it acts
\* on the delta of a comparison made before any informer was stored
ReconcileLockHeldStaleDelta(R, latestSet, idx) ==
    LET calc == calculateInformersLockHeld(EmptyMap, latestSet)
    IN IF calc.toAdd = {} /\ calc.toRemove = {} THEN [R |-> R, err |-> FALSE]
       ELSE LET addedR == AddLoop(R, InOrder(calc.toAdd, GVROrder), idx)
            IN IF addedR.err THEN addedR
               ELSE [R |-> RemoveLoop(addedR.R, InOrder(calc.toRemove, GVROrder)),
                     err |-> FALSE]

\* discoverTypes from d.mu.Lock() on: [R, err]
ReconcileLockHeld(R, latestSet, idx) ==
    LET calc == calculateInformersLockHeld(R.informers, latestSet)
    IN IF calc.toAdd = {} /\ calc.toRemove = {} THEN [R |-> R, err |-> FALSE]
       ELSE LET addedR == AddLoop(R, InOrder(calc.toAdd, GVROrder), idx)
            IN IF addedR.err THEN addedR
               ELSE [R |-> RemoveLoop(addedR.R, InOrder(calc.toRemove, GVROrder)),
                     err |-> FALSE]

\* discoverTypes from d.mu.RLock() to its return, when no other goroutine
\* takes d.mu in between: [R, err]
Reconcile(R, latestSet, idx) ==
    LET calc == calculateInformersLockHeld(R.informers, latestSet)
    IN IF calc.toAdd = {} /\ calc.toRemove = {} THEN [R |-> R, err |-> FALSE]
       ELSE ReconcileLockHeld(R, latestSet, idx)

\* StartLoop without the test of d.startedInformers[gvr]
RECURSIVE StartLoopNoStartedCheck(_, _)
StartLoopNoStartedCheck(R, gvrs) ==
    IF gvrs = <<>> THEN R
    ELSE StartLoopNoStartedCheck(StartInformer(R, Head(gvrs), R.informers[Head(gvrs)]),
                                 Tail(gvrs))

\* StartLoop without the store of true in d.startedInformers
RECURSIVE StartLoopNoMark(_, _)
StartLoopNoMark(R, gvrs) ==
    IF gvrs = <<>> THEN R
    ELSE LET gvr == Head(gvrs)
             isStarted == gvr \in DOMAIN R.startedInformers /\ R.startedInformers[gvr]
         IN StartLoopNoMark(IF ~isStarted
                            THEN [StartInformer(R, gvr, R.informers[gvr])
                                     EXCEPT !.startedInformers = R.startedInformers]
                            ELSE R,
                            Tail(gvrs))

\* the loop of Start over d.informers
RECURSIVE StartLoop(_, _)
StartLoop(R, gvrs) ==
    IF gvrs = <<>> THEN R
    ELSE LET gvr == Head(gvrs)
             isStarted == gvr \in DOMAIN R.startedInformers /\ R.startedInformers[gvr]
         IN StartLoop(IF ~isStarted THEN StartInformer(R, gvr, R.informers[gvr]) ELSE R,
                      Tail(gvrs))

\* the deferred teardown of the polling goroutine
RECURSIVE TeardownLoop(_, _)
TeardownLoop(R, gvrs) ==
    IF gvrs = <<>> \/ R.panicked THEN R
    ELSE TeardownLoop(Close(R, R.informerStops[Head(gvrs)]), Tail(gvrs))

\* ListersLockHeld without the continue after the append to notSynced
ListersNoContinue(infs, in, term) ==
    IF term
    THEN [listers |-> EmptyMap, notSynced |-> {}]
    ELSE [listers |-> [gvr \in DOMAIN infs |-> infs[gvr]],
          notSynced |-> { g \in DOMAIN infs : ~HasSynced(in[infs[g]]) }]

\* Listers, with d.mu read-held
ListersLockHeld(infs, in, term) ==
    IF term
    THEN [listers |-> EmptyMap, notSynced |-> {}]
    ELSE [listers |-> [gvr \in { g \in DOMAIN infs : HasSynced(in[infs[g]]) } |-> infs[gvr]],
          notSynced |-> { g \in DOMAIN infs : ~HasSynced(in[infs[g]]) }]

(***************************************************************************)
(* The event fan-out.                                                      *)
(***************************************************************************)
\* Go's copy(dst, src): min(len(dst), len(src)) elements are copied into dst
Copy(dst, src) == [i \in 1..Len(dst) |-> IF i <= Len(src) THEN src[i] ELSE dst[i]]

\* the objects of the backing store: d.filterFunc keeps the visible ones
Objects == {[name |-> "o1", visible |-> TRUE], [name |-> "o2", visible |-> FALSE]}
filterFunc(obj) == obj.visible

\* the notifications an informer hands to its event handler
Notifications ==
    {[kind |-> "add", oldObj |-> o, newObj |-> o] : o \in Objects}
    \cup {[kind |-> "delete", oldObj |-> o, newObj |-> o] : o \in Objects}
    \cup [kind : {"update"}, oldObj : Objects, newObj : Objects]

\* cache.FilteringResourceEventHandler: the callback of the inner handler
\* that a notification ends up in
Filtering(n) ==
    IF n.kind = "update"
    THEN IF filterFunc(n.newObj) /\ filterFunc(n.oldObj) THEN "update"
         ELSE IF filterFunc(n.newObj) THEN "add"
         ELSE IF filterFunc(n.oldObj) THEN "delete"
         ELSE "none"
    ELSE IF filterFunc(n.newObj) THEN n.kind ELSE "none"

\* the closures AddFunc, UpdateFunc, DeleteFunc of informerForResourceLockHeld:
\* one call per handler of the list loaded from d.handlers
Dispatch(gvr, kind, loaded) ==
    [i \in 1..Len(loaded) |-> [handler |-> loaded[i], gvr |-> gvr, kind |-> kind]]

\* the calls one notification of informer inf makes
Deliver(inf, n, loaded) ==
    IF Filtering(n) = "none" THEN <<>> ELSE Dispatch(inf.gvr, Filtering(n), loaded)

(***************************************************************************)
(* Actions.                                                                *)
(***************************************************************************)
SetRegistry(R) ==
    /\ informers' = R.informers
    /\ startedInformers' = R.startedInformers
    /\ informerStops' = R.informerStops
    /\ insts' = R.insts
    /\ chans' = R.chans
    /\ panicked' = R.panicked

\* no call is between two of its steps
Quiet ==
    /\ \A p \in Pollers : dpc[p] = "none"
    /\ waiting = {}
    /\ handlersLock = 0

Init ==
    /\ informers = EmptyMap
    /\ startedInformers = EmptyMap
    /\ informerStops = EmptyMap
    /\ terminating = FALSE
    /\ handlers = <<>>
    /\ handlersLock = 0
    /\ newHandlers = <<>>
    /\ indexers = {}
    /\ insts = EmptyMap
    /\ chans = EmptyMap
    /\ panicked = FALSE
    /\ ppc = [p \in Pollers |-> "idle"]
    /\ dpc = [p \in Pollers |-> "none"]
    /\ latest = [p \in Pollers |-> {}]
    /\ ctxDone = [p \in Pollers |-> FALSE]
    /\ waiting = {}
    /\ added = {}
    /\ ret = NoRet
    /\ observed = EmptyMap
    /\ handled = EmptyMap
    /\ current = EmptyMap
    /\ received = [h \in Handlers |-> <<>>]
    /\ mu = [writer |-> "none", readers |-> {}]
    /\ lpc = [g \in LockGoroutines |-> "idle"]
    /\ snapshot = [g \in LockGoroutines |-> <<>>]
    /\ passLocal = NoPass

\* AddEventHandler up to the build of newHandlers, d.handlersLock taken
AddEventHandlerLock(h) ==
    /\ ~panicked
    /\ handlersLock = 0
    /\ h \notin added
    /\ handlersLock' = h
    /\ newHandlers' = Append(Copy(<<>>, handlers), h)
    /\ ret' = NoRet
    /\ UNCHANGED <<registry, terminating, handlers, indexers, ppc, dpc, latest,
                   ctxDone, waiting, added>>
    /\ UNCHANGED eventLog
    /\ UNCHANGED lockState

\* AddEventHandler: d.handlers.Store(newHandlers) and the unlock
AddEventHandlerStore(h) ==
    /\ ~panicked
    /\ handlersLock = h
    /\ handlers' = newHandlers
    /\ handlersLock' = 0
    /\ newHandlers' = <<>>
    /\ added' = added \cup {h}
    /\ ret' = NoRet
    /\ UNCHANGED <<registry, terminating, indexers, ppc, dpc, latest, ctxDone, waiting>>
    /\ UNCHANGED eventLog
    /\ UNCHANGED lockState

\* the loop of AddIndexers over the names of its argument, in the order the
\* map is ranged over
RECURSIVE AddIndexersLoop(_, _)
AddIndexersLoop(idx, names) ==
    IF names = <<>> THEN [indexers |-> idx, err |-> FALSE]
    ELSE IF Head(names) \in idx THEN [indexers |-> idx, err |-> TRUE]
    ELSE AddIndexersLoop(idx \cup {Head(names)}, Tail(names))

AddIndexers(names) ==
    /\ ~panicked
    /\ indexers' = AddIndexersLoop(indexers, names).indexers
    /\ ret' = [op |-> "AddIndexers", names |-> names,
               err |-> AddIndexersLoop(indexers, names).err]
    /\ UNCHANGED <<registry, terminating, handlers, handlersLock, newHandlers, ppc,
                   dpc, latest, ctxDone, waiting, added>>
    /\ UNCHANGED eventLog
    /\ UNCHANGED lockState

\* InformerForResource: the look-up with d.mu read-held
InformerForResourceCheck(c, gvr) ==
    /\ ~panicked
    /\ \A w \in waiting : w[1] # c
    /\ IF gvr \in DOMAIN informers
       THEN /\ ret' = [op |-> "InformerForResource", gvr |-> gvr,
                       inf |-> informers[gvr], err |-> FALSE]
            /\ waiting' = waiting
       ELSE /\ ret' = NoRet
            /\ waiting' = waiting \cup {<<c, gvr>>}
    /\ UNCHANGED <<registry, terminating, handlers, handlersLock, newHandlers,
                   indexers, ppc, dpc, latest, ctxDone, added>>
    /\ UNCHANGED eventLog
    /\ UNCHANGED lockState

\* InformerForResource: find-or-create with d.mu held
InformerForResourceCreate(c, gvr) ==
    /\ ~panicked
    /\ <<c, gvr>> \in waiting
    /\ Cardinality(DOMAIN informerForResourceLockHeld(CurrentRegistry, gvr,
                                                       indexers).R.insts)
           <= MaxInformers
    /\ LET got == informerForResourceLockHeld(CurrentRegistry, gvr, indexers)
       IN /\ SetRegistry(got.R)
          /\ ret' = [op |-> "InformerForResource", gvr |-> gvr, inf |-> got.inf,
                     err |-> got.err]
    /\ waiting' = waiting \ {<<c, gvr>>}
    /\ UNCHANGED <<terminating, handlers, handlersLock, newHandlers, indexers, ppc,
                   dpc, latest, ctxDone, added>>
    /\ UNCHANGED eventLog
    /\ UNCHANGED lockState

\* Start
Start ==
    /\ ~panicked
    /\ SetRegistry(StartLoop(CurrentRegistry, InOrder(DOMAIN informers, GVROrder)))
    /\ ret' = NoRet
    /\ UNCHANGED <<terminating, handlers, handlersLock, newHandlers, indexers, ppc,
                   dpc, latest, ctxDone, waiting, added>>
    /\ UNCHANGED eventLog
    /\ UNCHANGED lockState

\* Listers
Listers ==
    /\ ~panicked
    /\ ret' = [op |-> "Listers",
               listers |-> ListersLockHeld(informers, insts, terminating).listers,
               notSynced |-> ListersLockHeld(informers, insts, terminating).notSynced]
    /\ UNCHANGED <<registry, terminating, handlers, handlersLock, newHandlers,
                   indexers, ppc, dpc, latest, ctxDone, waiting, added>>
    /\ UNCHANGED eventLog
    /\ UNCHANGED lockState

\* an informer goroutine completes its initial list
WatchSync(i) ==
    /\ ~panicked
    /\ insts[i].phase = "Syncing"
    /\ insts' = [insts EXCEPT ![i].phase = "Synced", ![i].synced = TRUE]
    /\ ret' = NoRet
    /\ UNCHANGED <<informers, startedInformers, informerStops, chans, panicked,
                   terminating, handlers, handlersLock, newHandlers, indexers, ppc,
                   dpc, latest, ctxDone, waiting, added>>
    /\ UNCHANGED eventLog
    /\ UNCHANGED lockState

\* an informer goroutine hands one notification to the handler closure
WatchEvent(i, n) ==
    /\ ~panicked
    /\ Running(insts[i])
    /\ ret' = [op |-> "event", inf |-> i, notification |-> n,
               calls |-> Deliver(insts[i], n, handlers)]
    /\ UNCHANGED <<registry, terminating, handlers, handlersLock, newHandlers,
                   indexers, ppc, dpc, latest, ctxDone, waiting, added>>
    /\ UNCHANGED eventLog
    /\ UNCHANGED lockState

\* an informer goroutine sees its stop channel closed and exits
WatchExit(i) ==
    /\ ~panicked
    /\ Running(insts[i])
    /\ chans[insts[i].stop]
    /\ insts' = [insts EXCEPT ![i].phase = "Stopped"]
    /\ ret' = NoRet
    /\ UNCHANGED <<informers, startedInformers, informerStops, chans, panicked,
                   terminating, handlers, handlersLock, newHandlers, indexers, ppc,
                   dpc, latest, ctxDone, waiting, added>>
    /\ UNCHANGED eventLog
    /\ UNCHANGED lockState

\* the watch stream of a synced informer is dropped by the backing store: the
\* informer starts a new list+watch cycle, with its cache as it was
WatchStreamDrop(i) ==
    /\ ~panicked
    /\ insts[i].phase = "Synced"
    /\ ~insts[i].relisting
    /\ insts' = [insts EXCEPT ![i].relisting = TRUE]
    /\ ret' = NoRet
    /\ UNCHANGED <<informers, startedInformers, informerStops, chans, panicked,
                   terminating, handlers, handlersLock, newHandlers, indexers, ppc,
                   dpc, latest, ctxDone, waiting, added>>
    /\ UNCHANGED eventLog
    /\ UNCHANGED lockState

\* the new list+watch cycle of the informer has its stream established
WatchRelist(i) ==
    /\ ~panicked
    /\ Running(insts[i])
    /\ insts[i].relisting
    /\ insts' = [insts EXCEPT ![i].relisting = FALSE]
    /\ ret' = NoRet
    /\ UNCHANGED <<informers, startedInformers, informerStops, chans, panicked,
                   terminating, handlers, handlersLock, newHandlers, indexers, ppc,
                   dpc, latest, ctxDone, waiting, added>>
    /\ UNCHANGED eventLog
    /\ UNCHANGED lockState

(***************************************************************************)
(* The handler of an informer, call by call.  An informer queues the       *)
(* notifications of its watch and one goroutine hands them to the          *)
(* FilteringResourceEventHandler in the order they were queued; the        *)
(* closure loads d.handlers once and calls the handlers one after the      *)
(* other before it returns.                                                *)
(***************************************************************************)
\* m[k], or d when the map has no k
Get(m, k, d) == IF k \in DOMAIN m THEN m[k] ELSE d

RECURSIVE SumLen(_, _)
SumLen(m, keys) ==
    IF keys = {} THEN 0
    ELSE LET k == CHOOSE x \in keys : TRUE
         IN Len(m[k]) + SumLen(m, keys \ {k})

\* the add, the update and the delete of an object that passes d.filterFunc,
\* and the add of one that does not
OrderingNotifications ==
    { n \in Notifications : n.oldObj = n.newObj /\ (filterFunc(n.newObj) \/ n.kind = "add") }

\* NextNotification taking the newest queued notification first
NextNotificationNewestFirst(queued, finished) == Len(queued) - finished

\* the index of the notification the handler goroutine takes next
NextNotification(queued, finished) == finished + 1

\* the watch of informer i observes a change and queues its notification
WatchObserve(i, n) ==
    /\ ~panicked
    /\ Running(insts[i])
    /\ SumLen(observed, DOMAIN observed) < MaxEvents
    /\ observed' = MapPut(observed, i, Append(Get(observed, i, <<>>), n))
    /\ ret' = NoRet
    /\ UNCHANGED <<registry, terminating, handlers, handlersLock, newHandlers,
                   indexers, ppc, dpc, latest, ctxDone, waiting, added, handled,
                   current, received>>
    /\ UNCHANGED lockState

\* the handler goroutine of informer i takes the next notification: the
\* filter, then d.handlers.Load() at the head of the range loop
HandleBegin(i) ==
    /\ ~panicked
    /\ i \notin DOMAIN current
    /\ Get(handled, i, 0) < Len(Get(observed, i, <<>>))
    /\ LET idx == NextNotification(observed[i], Get(handled, i, 0))
       IN IF Filtering(observed[i][idx]) = "none" \/ handlers = <<>>
          THEN /\ handled' = MapPut(handled, i, Get(handled, i, 0) + 1)
               /\ UNCHANGED current
          ELSE /\ current' = MapPut(current, i, [idx |-> idx, loaded |-> handlers, k |-> 1])
               /\ UNCHANGED handled
    /\ ret' = NoRet
    /\ UNCHANGED <<registry, terminating, handlers, handlersLock, newHandlers,
                   indexers, ppc, dpc, latest, ctxDone, waiting, added, observed,
                   received>>
    /\ UNCHANGED lockState

\* the closure calls the next handler of the list it loaded, and returns
\* after the last one
HandleCall(i) ==
    /\ ~panicked
    /\ i \in DOMAIN current
    /\ LET c == current[i]
           h == c.loaded[c.k]
       IN /\ received' = [received EXCEPT ![h] =
                 Append(@, [inf |-> i, idx |-> c.idx, gvr |-> insts[i].gvr,
                            kind |-> Filtering(observed[i][c.idx])])]
          /\ IF c.k = Len(c.loaded)
             THEN /\ current' = MapDelete(current, i)
                  /\ handled' = MapPut(handled, i, Get(handled, i, 0) + 1)
             ELSE /\ current' = [current EXCEPT ![i].k = @ + 1]
                  /\ UNCHANGED handled
    /\ ret' = NoRet
    /\ UNCHANGED <<registry, terminating, handlers, handlersLock, newHandlers,
                   indexers, ppc, dpc, latest, ctxDone, waiting, added, observed>>
    /\ UNCHANGED lockState

(***************************************************************************)
(* StartPolling and discoverTypes.  ppc: "idle" (not called), "initial"    *)
(* (the immediate first attempt of PollImmediateInfiniteWithContext),      *)
(* "retry" (its wait between attempts), "loop" (StartPolling has returned  *)
(* and the polling goroutine selects), "returned" (StartPolling returned   *)
(* on a cancelled context without starting the goroutine), "done" (the     *)
(* goroutine has exited and its deferred teardown has run).                *)
(***************************************************************************)
StartPolling(p) ==
    /\ ~panicked
    /\ ppc[p] = "idle"
    /\ ppc' = [ppc EXCEPT ![p] = "initial"]
    /\ ret' = NoRet
    /\ UNCHANGED <<registry, terminating, handlers, handlersLock, newHandlers,
                   indexers, dpc, latest, ctxDone, waiting, added>>
    /\ UNCHANGED eventLog
    /\ UNCHANGED lockState

\* the context of a StartPolling call is cancelled
Cancel(p) ==
    /\ ~panicked
    /\ ~ctxDone[p]
    /\ ctxDone' = [ctxDone EXCEPT ![p] = TRUE]
    /\ ret' = NoRet
    /\ UNCHANGED <<registry, terminating, handlers, handlersLock, newHandlers,
                   indexers, ppc, dpc, latest, waiting, added>>
    /\ UNCHANGED eventLog
    /\ UNCHANGED lockState

\* AfterPass of a polling goroutine that exits on the first failed pass
AfterPassExitOnError(pc, err) ==
    IF err /\ pc \in {"initial", "retry"} THEN "retry"
    ELSE IF err THEN "done"
    ELSE "loop"

\* AfterPass of a StartPolling that does not wait for a pass to succeed
AfterPassNoRetry(pc, err) == "loop"

\* where a poller goes when its discoverTypes call returns
AfterPass(pc, err) ==
    IF err /\ pc \in {"initial", "retry"} THEN "retry" ELSE "loop"

\* discoverTypes from its start to d.mu.RUnlock(): discovery, then the
\* optimistic comparison with d.mu read-held
DiscoverTypesBegin(p, in) ==
    /\ ~panicked
    /\ ppc[p] \in {"initial", "retry", "loop"}
    /\ dpc[p] = "none"
    /\ LET found == Discover(in)
           calc == calculateInformersLockHeld(informers, found.val)
       IN IF found.err
          THEN /\ ppc' = [ppc EXCEPT ![p] = AfterPass(@, TRUE)]
               /\ ret' = [op |-> "discoverTypes", err |-> TRUE]
               /\ UNCHANGED <<dpc, latest>>
          ELSE IF calc.toAdd = {} /\ calc.toRemove = {}
          THEN /\ ppc' = [ppc EXCEPT ![p] = AfterPass(@, FALSE)]
               /\ ret' = [op |-> "discoverTypes", err |-> FALSE]
               /\ UNCHANGED <<dpc, latest>>
          ELSE /\ dpc' = [dpc EXCEPT ![p] = "write"]
               /\ latest' = [latest EXCEPT ![p] = found.val]
               /\ ret' = NoRet
               /\ UNCHANGED ppc
    /\ UNCHANGED <<registry, terminating, handlers, handlersLock, newHandlers,
                   indexers, ctxDone, waiting, added>>
    /\ UNCHANGED eventLog
    /\ UNCHANGED lockState

\* discoverTypes from d.mu.Lock() to its return
DiscoverTypesWrite(p) ==
    /\ ~panicked
    /\ dpc[p] = "write"
    /\ \E got \in {ReconcileLockHeld(CurrentRegistry, latest[p], indexers)} :
          /\ Cardinality(DOMAIN got.R.insts) <= MaxInformers
          /\ SetRegistry(got.R)
          /\ ppc' = [ppc EXCEPT ![p] = AfterPass(@, got.err)]
          /\ ret' = [op |-> "discoverTypes", err |-> got.err]
    /\ dpc' = [dpc EXCEPT ![p] = "none"]
    /\ latest' = [latest EXCEPT ![p] = {}]
    /\ UNCHANGED <<terminating, handlers, handlersLock, newHandlers, indexers,
                   ctxDone, waiting, added>>
    /\ UNCHANGED eventLog
    /\ UNCHANGED lockState

\* PollImmediateInfiniteWithContext returns on the cancelled context, and
\* StartPolling with it
PollCancelled(p) ==
    /\ ~panicked
    /\ ppc[p] = "retry"
    /\ dpc[p] = "none"
    /\ ctxDone[p]
    /\ ppc' = [ppc EXCEPT ![p] = "returned"]
    /\ ret' = NoRet
    /\ UNCHANGED <<registry, terminating, handlers, handlersLock, newHandlers,
                   indexers, dpc, latest, ctxDone, waiting, added>>
    /\ UNCHANGED eventLog
    /\ UNCHANGED lockState

\* the polling goroutine takes <-ctx.Done(), returns, and its deferred
\* function closes every stop channel of d.informerStops
Teardown(p) ==
    /\ ~panicked
    /\ ppc[p] = "loop"
    /\ dpc[p] = "none"
    /\ ctxDone[p]
    /\ SetRegistry(TeardownLoop(CurrentRegistry, InOrder(DOMAIN informerStops, GVROrder)))
    /\ ppc' = [ppc EXCEPT ![p] = "done"]
    /\ ret' = NoRet
    /\ UNCHANGED <<terminating, handlers, handlersLock, newHandlers, indexers, dpc,
                   latest, ctxDone, waiting, added>>
    /\ UNCHANGED eventLog
    /\ UNCHANGED lockState

(***************************************************************************)
(* d.mu, lock operation by lock operation.  The actions above take each    *)
(* section that runs under d.mu as one step; the actions below follow the  *)
(* same code through every RLock, Lock, RUnlock and Unlock, with each      *)
(* iteration of a loop over the maps as a step of its own, so that an      *)
(* overlap of two sections would show.                                     *)
(***************************************************************************)
\* sync.RWMutex: RLock returns while no goroutine holds the lock for writing,
\* Lock while no goroutine holds it at all
CanAcquire(m, mode) ==
    IF mode = "R" THEN m.writer = "none" ELSE m.writer = "none" /\ m.readers = {}

Acquire(m, g, mode) ==
    IF mode = "R" THEN [m EXCEPT !.readers = @ \cup {g}] ELSE [m EXCEPT !.writer = g]

Release(m, g, mode) ==
    IF mode = "R" THEN [m EXCEPT !.readers = @ \ {g}] ELSE [m EXCEPT !.writer = "none"]

\* LockTaken with Start taking d.mu.RLock() in place of d.mu.Lock()
LockTakenStartShared(section) ==
    IF section \in {"Listers", "lookup", "diff", "Start"} THEN "R" ELSE "W"

\* how each section of the code takes d.mu: Listers, the look-up of
\* InformerForResource and the comparison of discoverTypes with RLock; the
\* find-or-create of InformerForResource, the reconciliation of discoverTypes
\* and Start with Lock
LockTaken(section) ==
    IF section \in {"Listers", "lookup", "diff"} THEN "R" ELSE "W"

\* the maps of the registry
RegistryMaps == <<informers, informerStops, startedInformers>>

\* the key the lock-level caller of InformerForResource asks for
LockGVR == gvrA

\* what the lock-level actions leave alone
aside == <<terminating, handlers, handlersLock, newHandlers, indexers, ppc, dpc,
           latest, ctxDone, waiting, added, eventLog>>

\* Listers: d.mu.RLock()
ListersRLock(g) ==
    /\ lpc[g] = "idle"
    /\ CanAcquire(mu, LockTaken("Listers"))
    /\ mu' = Acquire(mu, g, LockTaken("Listers"))
    /\ lpc' = [lpc EXCEPT ![g] = "listing"]
    /\ snapshot' = [snapshot EXCEPT ![g] = RegistryMaps]
    /\ ret' = NoRet
    /\ UNCHANGED <<registry, passLocal, aside>>

\* Listers: the loop over d.informers, the return and the deferred RUnlock
ListersReturn(g) ==
    /\ lpc[g] = "listing"
    /\ ret' = [op |-> "Listers",
               listers |-> ListersLockHeld(informers, insts, terminating).listers,
               notSynced |-> ListersLockHeld(informers, insts, terminating).notSynced]
    /\ mu' = Release(mu, g, LockTaken("Listers"))
    /\ lpc' = [lpc EXCEPT ![g] = "idle"]
    /\ snapshot' = [snapshot EXCEPT ![g] = <<>>]
    /\ UNCHANGED <<registry, passLocal, aside>>

\* InformerForResource: d.mu.RLock()
LookupRLock(g) ==
    /\ lpc[g] = "idle"
    /\ CanAcquire(mu, LockTaken("lookup"))
    /\ mu' = Acquire(mu, g, LockTaken("lookup"))
    /\ lpc' = [lpc EXCEPT ![g] = "lookup"]
    /\ snapshot' = [snapshot EXCEPT ![g] = RegistryMaps]
    /\ ret' = NoRet
    /\ UNCHANGED <<registry, passLocal, aside>>

\* InformerForResource: inf := d.informers[gvr], d.mu.RUnlock(), and the
\* return when inf is not nil
LookupRUnlock(g) ==
    /\ lpc[g] = "lookup"
    /\ mu' = Release(mu, g, LockTaken("lookup"))
    /\ snapshot' = [snapshot EXCEPT ![g] = <<>>]
    /\ IF LockGVR \in DOMAIN informers
       THEN /\ lpc' = [lpc EXCEPT ![g] = "idle"]
            /\ ret' = [op |-> "InformerForResource", gvr |-> LockGVR,
                       inf |-> informers[LockGVR], err |-> FALSE]
       ELSE /\ lpc' = [lpc EXCEPT ![g] = "missed"]
            /\ ret' = NoRet
    /\ UNCHANGED <<registry, passLocal, aside>>

\* InformerForResource: d.mu.Lock()
LookupLock(g) ==
    /\ lpc[g] = "missed"
    /\ CanAcquire(mu, LockTaken("create"))
    /\ mu' = Acquire(mu, g, LockTaken("create"))
    /\ lpc' = [lpc EXCEPT ![g] = "create"]
    /\ ret' = NoRet
    /\ UNCHANGED <<registry, snapshot, passLocal, aside>>

\* InformerForResource: informerForResourceLockHeld
LookupStore(g) ==
    /\ lpc[g] = "create"
    /\ \E got \in {informerForResourceLockHeld(CurrentRegistry, LockGVR, indexers)} :
          /\ Cardinality(DOMAIN got.R.insts) <= MaxInformers
          /\ SetRegistry(got.R)
          /\ ret' = [op |-> "InformerForResource", gvr |-> LockGVR, inf |-> got.inf,
                     err |-> got.err]
    /\ lpc' = [lpc EXCEPT ![g] = "created"]
    /\ UNCHANGED <<mu, snapshot, passLocal, aside>>

\* InformerForResource: the deferred d.mu.Unlock()
LookupUnlock(g) ==
    /\ lpc[g] = "created"
    /\ mu' = Release(mu, g, LockTaken("create"))
    /\ lpc' = [lpc EXCEPT ![g] = "idle"]
    /\ ret' = NoRet
    /\ UNCHANGED <<registry, snapshot, passLocal, aside>>

\* the keys of d.informers that Start has still to start
Unstarted == { gvr \in DOMAIN informers : ~Get(startedInformers, gvr, FALSE) }

\* Start: d.mu.Lock()
StartLock(g) ==
    /\ lpc[g] = "idle"
    /\ CanAcquire(mu, LockTaken("Start"))
    /\ mu' = Acquire(mu, g, LockTaken("Start"))
    /\ lpc' = [lpc EXCEPT ![g] = "starting"]
    /\ ret' = NoRet
    /\ UNCHANGED <<registry, snapshot, passLocal, aside>>

\* Start: one iteration of its loop that finds an informer not started
StartStep(g) ==
    /\ lpc[g] = "starting"
    /\ Unstarted # {}
    /\ SetRegistry(StartLoop(CurrentRegistry, <<Head(InOrder(Unstarted, GVROrder))>>))
    /\ ret' = NoRet
    /\ UNCHANGED <<mu, lpc, snapshot, passLocal, aside>>

\* Start: the end of the loop and the deferred d.mu.Unlock()
StartUnlock(g) ==
    /\ lpc[g] = "starting"
    /\ Unstarted = {}
    /\ mu' = Release(mu, g, LockTaken("Start"))
    /\ lpc' = [lpc EXCEPT ![g] = "idle"]
    /\ ret' = NoRet
    /\ UNCHANGED <<registry, snapshot, passLocal, aside>>

\* discoverTypes up to the first use of d.mu
PassDiscover(g, in) ==
    /\ lpc[g] = "idle"
    /\ IF Discover(in).err
       THEN /\ ret' = [op |-> "discoverTypes", err |-> TRUE]
            /\ UNCHANGED <<lpc, passLocal>>
       ELSE /\ ret' = NoRet
            /\ lpc' = [lpc EXCEPT ![g] = "discovered"]
            /\ passLocal' = [NoPass EXCEPT !.latest = Discover(in).val]
    /\ UNCHANGED <<registry, mu, snapshot, aside>>

\* discoverTypes: d.mu.RLock()
PassRLock(g) ==
    /\ lpc[g] = "discovered"
    /\ CanAcquire(mu, LockTaken("diff"))
    /\ mu' = Acquire(mu, g, LockTaken("diff"))
    /\ lpc' = [lpc EXCEPT ![g] = "diff"]
    /\ snapshot' = [snapshot EXCEPT ![g] = RegistryMaps]
    /\ ret' = NoRet
    /\ UNCHANGED <<registry, passLocal, aside>>

\* discoverTypes: calculateInformersLockHeld, d.mu.RUnlock(), and the return
\* when there is nothing to add or remove
PassRUnlock(g) ==
    /\ lpc[g] = "diff"
    /\ mu' = Release(mu, g, LockTaken("diff"))
    /\ snapshot' = [snapshot EXCEPT ![g] = <<>>]
    /\ LET calc == calculateInformersLockHeld(informers, passLocal.latest)
       IN IF calc.toAdd = {} /\ calc.toRemove = {}
          THEN /\ lpc' = [lpc EXCEPT ![g] = "idle"]
               /\ passLocal' = NoPass
               /\ ret' = [op |-> "discoverTypes", err |-> FALSE]
          ELSE /\ lpc' = [lpc EXCEPT ![g] = "changed"]
               /\ ret' = NoRet
               /\ UNCHANGED passLocal
    /\ UNCHANGED <<registry, aside>>

\* discoverTypes: d.mu.Lock() and the recalculation
PassLock(g) ==
    /\ lpc[g] = "changed"
    /\ CanAcquire(mu, LockTaken("reconcile"))
    /\ mu' = Acquire(mu, g, LockTaken("reconcile"))
    /\ lpc' = [lpc EXCEPT ![g] = "reconcile"]
    /\ LET calc == calculateInformersLockHeld(informers, passLocal.latest)
       IN passLocal' = [passLocal EXCEPT !.toAdd = InOrder(calc.toAdd, GVROrder),
                                         !.toRemove = InOrder(calc.toRemove, GVROrder)]
    /\ ret' = NoRet
    /\ UNCHANGED <<registry, snapshot, aside>>

\* discoverTypes: one iteration of the loop over informersToAdd
PassAdd(g) ==
    /\ lpc[g] = "reconcile"
    /\ ~passLocal.failed
    /\ passLocal.toAdd # <<>>
    /\ \E got \in {AddLoop(CurrentRegistry, <<Head(passLocal.toAdd)>>, indexers)} :
          /\ Cardinality(DOMAIN got.R.insts) <= MaxInformers
          /\ SetRegistry(got.R)
          /\ passLocal' = [passLocal EXCEPT !.toAdd = Tail(@), !.failed = got.err]
    /\ ret' = NoRet
    /\ UNCHANGED <<mu, lpc, snapshot, aside>>

\* discoverTypes: one iteration of the loop over informersToRemove
PassRemove(g) ==
    /\ lpc[g] = "reconcile"
    /\ ~passLocal.failed
    /\ passLocal.toAdd = <<>>
    /\ passLocal.toRemove # <<>>
    /\ SetRegistry(RemoveLoop(CurrentRegistry, <<Head(passLocal.toRemove)>>))
    /\ passLocal' = [passLocal EXCEPT !.toRemove = Tail(@)]
    /\ ret' = NoRet
    /\ UNCHANGED <<mu, lpc, snapshot, aside>>

\* discoverTypes: the return under the write lock and the deferred
\* d.mu.Unlock()
PassUnlock(g) ==
    /\ lpc[g] = "reconcile"
    /\ passLocal.failed \/ (passLocal.toAdd = <<>> /\ passLocal.toRemove = <<>>)
    /\ mu' = Release(mu, g, LockTaken("reconcile"))
    /\ lpc' = [lpc EXCEPT ![g] = "idle"]
    /\ ret' = [op |-> "discoverTypes", err |-> passLocal.failed]
    /\ passLocal' = NoPass
    /\ UNCHANGED <<registry, snapshot, aside>>

(***************************************************************************)
(* Specifications.                                                         *)
(***************************************************************************)
MainPollers == {"poller1"}
MainCallers == {"caller1"}

\* Spec: the polling loop, the informer goroutines, and a caller that makes
\* one call at a time: InformerForResource for a pinned key, Start, Listers,
\* AddIndexers.
Next ==
    \/ \E p \in MainPollers : Quiet /\ StartPolling(p)
    \/ \E p \in MainPollers : Quiet /\ Cancel(p)
    \/ \E p \in MainPollers, in \in DiscoveryInputs : Quiet /\ DiscoverTypesBegin(p, in)
    \/ \E p \in MainPollers : DiscoverTypesWrite(p)
    \/ \E p \in MainPollers : Quiet /\ PollCancelled(p)
    \/ \E p \in MainPollers : Quiet /\ Teardown(p)
    \/ \E c \in MainCallers : Quiet /\ InformerForResourceCheck(c, crdGVR)
    \/ \E c \in MainCallers : InformerForResourceCreate(c, crdGVR)
    \/ Quiet /\ Start
    \/ Quiet /\ Listers
    \/ Quiet /\ AddIndexers(<<NamespaceIndex>>)
    \/ \E i \in DOMAIN insts : Quiet /\ WatchSync(i)
    \/ \E i \in DOMAIN insts : Quiet /\ WatchExit(i)

Spec == Init /\ [][Next]_vars

\* SpecPinned: as Spec, with informers asked for both pinned keys and no
\* indexer added
NextPinned ==
    \/ \E p \in MainPollers : Quiet /\ StartPolling(p)
    \/ \E p \in MainPollers : Quiet /\ Cancel(p)
    \/ \E p \in MainPollers, in \in DiscoveryInputs : Quiet /\ DiscoverTypesBegin(p, in)
    \/ \E p \in MainPollers : DiscoverTypesWrite(p)
    \/ \E p \in MainPollers : Quiet /\ PollCancelled(p)
    \/ \E p \in MainPollers : Quiet /\ Teardown(p)
    \/ \E c \in MainCallers, gvr \in PinnedGVRs : Quiet /\ InformerForResourceCheck(c, gvr)
    \/ \E c \in MainCallers, gvr \in PinnedGVRs : InformerForResourceCreate(c, gvr)
    \/ Quiet /\ Start
    \/ \E i \in DOMAIN insts : Quiet /\ WatchSync(i)
    \/ \E i \in DOMAIN insts : Quiet /\ WatchExit(i)

SpecPinned == Init /\ [][NextPinned]_vars

\* SpecFanout: the polling loop over one logical cluster, the informer
\* goroutines with their notifications, and concurrent AddEventHandler calls
FanoutInputs ==
    {[workspaces |-> Ok(<<wsOne>>), resources |-> <<r>>] : r \in {rsAB, Ok({}), Failed}}

NextFanout ==
    \/ \E p \in MainPollers : StartPolling(p)
    \/ \E p \in MainPollers : Cancel(p)
    \/ \E p \in MainPollers, in \in FanoutInputs : DiscoverTypesBegin(p, in)
    \/ \E p \in MainPollers : DiscoverTypesWrite(p)
    \/ \E p \in MainPollers : PollCancelled(p)
    \/ \E p \in MainPollers : Teardown(p)
    \/ \E h \in Handlers : AddEventHandlerLock(h)
    \/ \E h \in Handlers : AddEventHandlerStore(h)
    \/ \E i \in DOMAIN insts : WatchSync(i)
    \/ \E i \in DOMAIN insts, n \in Notifications : WatchEvent(i, n)
    \/ \E i \in DOMAIN insts : WatchExit(i)

SpecFanout == Init /\ [][NextFanout]_vars

\* SpecDiscovery: the polling loop alone, with every combination of answers
\* of the lister and of up to two logical clusters
AllDiscoveryInputs ==
    {[workspaces |-> w, resources |-> <<>>] : w \in {x \in WorkspaceLists : Len(x.val) = 0}}
    \cup {[workspaces |-> Ok(<<wsOne>>), resources |-> <<r>>] : r \in ServerResources}
    \cup {[workspaces |-> Ok(<<wsOne, wsTwo>>), resources |-> <<r1, r2>>] :
            r1 \in ServerResources, r2 \in ServerResources}

NextDiscovery ==
    \/ \E p \in MainPollers : StartPolling(p)
    \/ \E p \in MainPollers : Cancel(p)
    \/ \E p \in MainPollers, in \in AllDiscoveryInputs : DiscoverTypesBegin(p, in)
    \/ \E p \in MainPollers : DiscoverTypesWrite(p)
    \/ \E p \in MainPollers : PollCancelled(p)
    \/ \E p \in MainPollers : Teardown(p)

SpecDiscovery == Init /\ [][NextDiscovery]_vars

\* SpecConcurrent: two StartPolling calls, each with its context and its
\* polling goroutine, two goroutines calling InformerForResource, and Start,
\* interleaved at every release of d.mu
ConcurrentGVRs == {gvrA}

NextConcurrent ==
    \/ \E p \in Pollers : StartPolling(p)
    \/ \E p \in Pollers : Cancel(p)
    \/ \E p \in Pollers, in \in FanoutInputs : DiscoverTypesBegin(p, in)
    \/ \E p \in Pollers : DiscoverTypesWrite(p)
    \/ \E p \in Pollers : PollCancelled(p)
    \/ \E p \in Pollers : Teardown(p)
    \/ \E c \in Callers, gvr \in ConcurrentGVRs : InformerForResourceCheck(c, gvr)
    \/ \E c \in Callers, gvr \in ConcurrentGVRs : InformerForResourceCreate(c, gvr)
    \/ Start

SpecConcurrent == Init /\ [][NextConcurrent]_vars

\* SpecOrdering: a first pass that starts the informer of one resource type,
\* AddEventHandler calls, and the informer handing its notifications to the
\* handlers call by call
OrderingInputs == {[workspaces |-> Ok(<<wsOne>>), resources |-> <<rsA>>]}

NextOrdering ==
    \/ \E p \in MainPollers : StartPolling(p)
    \/ \E p \in MainPollers, in \in OrderingInputs : DiscoverTypesBegin(p, in)
    \/ \E p \in MainPollers : DiscoverTypesWrite(p)
    \/ \E h \in Handlers : AddEventHandlerLock(h)
    \/ \E h \in Handlers : AddEventHandlerStore(h)
    \/ \E i \in DOMAIN insts, n \in OrderingNotifications : WatchObserve(i, n)
    \/ \E i \in DOMAIN insts : HandleBegin(i)
    \/ \E i \in DOMAIN insts : HandleCall(i)

SpecOrdering == Init /\ [][NextOrdering]_vars

\* SpecConverge: a polling loop whose every pass succeeds with the discovered
\* set {as} and that keeps ticking (the context is never cancelled: weak
\* fairness of the call and of the passes, which the ticker guarantees), with
\* a caller of InformerForResource and Start, and the informer goroutines
ConvergeInputs ==
    {[workspaces |-> Ok(<<wsOne>>), resources |-> <<rsA>>],
     [workspaces |-> Ok(<<wsOne, wsTwo>>), resources |-> <<rsA, Ok({})>>]}

ConvergeGVRs == {gvrA, gvrC}

Tick ==
    \/ \E p \in MainPollers, in \in ConvergeInputs : DiscoverTypesBegin(p, in)
    \/ \E p \in MainPollers : DiscoverTypesWrite(p)

NextConverge ==
    \/ \E p \in MainPollers : StartPolling(p)
    \/ Tick
    \/ \E c \in MainCallers, gvr \in ConvergeGVRs : InformerForResourceCheck(c, gvr)
    \/ \E c \in MainCallers, gvr \in ConvergeGVRs : InformerForResourceCreate(c, gvr)
    \/ Start
    \/ \E i \in DOMAIN insts : WatchSync(i)
    \/ \E i \in DOMAIN insts : WatchExit(i)

SpecConverge ==
    /\ Init
    /\ [][NextConverge]_vars
    /\ WF_vars(\E p \in MainPollers : StartPolling(p))
    /\ WF_vars(Tick)

\* SpecLookup: two goroutines calling InformerForResource for one key, with
\* Start, AddIndexers and a polling loop that adds and removes that key
LookupGVRs == {gvrA}

NextLookup ==
    \/ \E p \in MainPollers : StartPolling(p)
    \/ \E p \in MainPollers, in \in FanoutInputs : DiscoverTypesBegin(p, in)
    \/ \E p \in MainPollers : DiscoverTypesWrite(p)
    \/ \E c \in Callers, gvr \in LookupGVRs : InformerForResourceCheck(c, gvr)
    \/ \E c \in Callers, gvr \in LookupGVRs : InformerForResourceCreate(c, gvr)
    \/ Start
    \/ AddIndexers(<<NamespaceIndex>>)

SpecLookup == Init /\ [][NextLookup]_vars

\* SpecLocks: two callers of Listers, a caller of InformerForResource, a
\* caller of Start and a discoverTypes call at a time, interleaved at every
\* operation on d.mu and every iteration of a loop that writes the maps
NextLocks ==
    \/ \E g \in ListerGoroutines : ListersRLock(g)
    \/ \E g \in ListerGoroutines : ListersReturn(g)
    \/ LookupRLock("finder")
    \/ LookupRUnlock("finder")
    \/ LookupLock("finder")
    \/ LookupStore("finder")
    \/ LookupUnlock("finder")
    \/ StartLock("starter")
    \/ StartStep("starter")
    \/ StartUnlock("starter")
    \/ \E in \in FanoutInputs : PassDiscover("pass", in)
    \/ PassRLock("pass")
    \/ PassRUnlock("pass")
    \/ PassLock("pass")
    \/ PassAdd("pass")
    \/ PassRemove("pass")
    \/ PassUnlock("pass")

SpecLocks == Init /\ [][NextLocks]_vars

\* SpecResync: the polling loop, the informer goroutines with interruptions
\* of their watch streams, and a caller of Listers
NextResync ==
    \/ \E p \in MainPollers : StartPolling(p)
    \/ \E p \in MainPollers, in \in FanoutInputs : DiscoverTypesBegin(p, in)
    \/ \E p \in MainPollers : DiscoverTypesWrite(p)
    \/ \E i \in DOMAIN insts : WatchSync(i)
    \/ \E i \in DOMAIN insts : WatchStreamDrop(i)
    \/ \E i \in DOMAIN insts : WatchRelist(i)
    \/ \E i \in DOMAIN insts : WatchExit(i)
    \/ Listers

SpecResync == Init /\ [][NextResync]_vars

\* SpecIndexers: callers of AddIndexers with one or two indexers, ranged over
\* in either order (the iteration order of a Go map is not fixed), next to
\* callers of InformerForResource, Start and a polling loop
IndexerCalls ==
    {<<NamespaceIndex>>, <<"byWorkspace">>,
     <<NamespaceIndex, "byWorkspace">>, <<"byWorkspace", NamespaceIndex>>}

NextIndexers ==
    \/ \E p \in MainPollers : StartPolling(p)
    \/ \E p \in MainPollers, in \in FanoutInputs : DiscoverTypesBegin(p, in)
    \/ \E p \in MainPollers : DiscoverTypesWrite(p)
    \/ \E c \in MainCallers, gvr \in LookupGVRs : InformerForResourceCheck(c, gvr)
    \/ \E c \in MainCallers, gvr \in LookupGVRs : InformerForResourceCreate(c, gvr)
    \/ Start
    \/ \E names \in IndexerCalls : AddIndexers(names)

SpecIndexers == Init /\ [][NextIndexers]_vars

(***************************************************************************)
(* shardHandler: the HTTP handler that routes a request for a logical      *)
(* cluster to the shard that holds it.  A string is the sequence of its    *)
(* pieces: the separator "/" and words that hold no "/".                   *)
(***************************************************************************)
MaxPathLen == 6

PathTokens == {"/", "clusters", "root:org", "root:bad", "*"}
Paths == UNION {[1..n -> PathTokens] : n \in 0..MaxPathLen}

\* a request: its URL path and whether its context carries the request info
\* that filters.GetAuthorizerAttributes reads
Requests == [path : Paths, ctx : [requestInfo : BOOLEAN]]

\* strings.TrimLeft(s, cutset)
RECURSIVE TrimLeft(_, _)
TrimLeft(s, cutset) ==
    IF s # <<>> /\ Head(s) \in cutset THEN TrimLeft(Tail(s), cutset) ELSE s

\* strings.SplitN(s, sep, n) for n > 0: at most n substrings, the last one
\* the unsplit remainder
RECURSIVE SplitN(_, _, _)
SplitN(s, sep, n) ==
    IF n = 1 \/ \A i \in 1..Len(s) : s[i] # sep THEN <<s>>
    ELSE LET i == CHOOSE k \in 1..Len(s) :
                      s[k] = sep /\ \A x \in 1..(k - 1) : s[x] # sep
         IN <<SubSeq(s, 1, i - 1)>> \o SplitN(SubSeq(s, i + 1, Len(s)), sep, n - 1)

\* filters.GetAuthorizerAttributes(ctx): an error when the context has no
\* request info
GetAuthorizerAttributes(ctx) ==
    IF ctx.requestInfo THEN [err |-> FALSE, attributes |-> "attributes"]
    ELSE [err |-> TRUE, attributes |-> "none"]

\* tenancyhelper.IsValidCluster(logicalcluster.New(name)): the wildcard, the
\* empty name and a name of several words are not valid
IsValidCluster(name) == name \in {<<"clusters">>, <<"root:org">>, <<"root:bad">>}

\* the index handed to shardHandler: the shard URL of each cluster it knows
\* (it does not know the cluster named clusters)
ShardIndex ==
    (<<"root:org">> :> "https://shard-1.example.dev:6443")
        @@ (<<"root:bad">> :> "https://shard-%zz.example.dev")

\* index.Lookup(clusterName)
Lookup(index, clusterName) ==
    IF clusterName \in DOMAIN index
    THEN [url |-> index[clusterName], found |-> TRUE]
    ELSE [url |-> "", found |-> FALSE]

\* url.Parse(rawURL): the parsed URL, or an error for an invalid escape
Parse(rawURL) ==
    IF rawURL = "https://shard-1.example.dev:6443"
    THEN [err |-> FALSE, url |-> [Scheme |-> "https", Host |-> "shard-1.example.dev:6443"]]
    ELSE [err |-> TRUE, url |-> [Scheme |-> "", Host |-> ""]]

\* WithShardURL(ctx, shardURL)
WithShardURL(ctx, shardURL) ==
    [requestInfo |-> ctx.requestInfo, shardURL |-> shardURL]

\* what one call of the handler does: the responses it writes itself and the
\* requests it hands to proxy.ServeHTTP
Responded(response) == [responses |-> <<response>>, proxied |-> <<>>]

\* shardHandler that does not ask for the authorizer attributes
shardHandlerNoAttributes(index, req) ==
    LET cs == SplitN(TrimLeft(req.path, {"/"}), "/", 3)
    IN IF Len(cs) # 3 \/ cs[1] # <<"clusters">> THEN Responded("NotFound")
       ELSE IF ~IsValidCluster(cs[2]) THEN Responded("Forbidden")
       ELSE IF ~Lookup(index, cs[2]).found THEN Responded("Forbidden")
       ELSE IF Parse(Lookup(index, cs[2]).url).err THEN Responded("InternalError")
       ELSE [responses |-> <<>>,
             proxied |-> <<[path |-> req.path,
                            ctx |-> WithShardURL(req.ctx,
                                                 Parse(Lookup(index, cs[2]).url).url)]>>]

\* shardHandler(index, proxy): the handler it returns, applied to req
shardHandler(index, req) ==
    LET cs == SplitN(TrimLeft(req.path, {"/"}), "/", 3)
    IN IF Len(cs) # 3 \/ cs[1] # <<"clusters">> THEN Responded("NotFound")
       ELSE IF GetAuthorizerAttributes(req.ctx).err THEN Responded("InternalError")
       ELSE IF ~IsValidCluster(cs[2]) THEN Responded("Forbidden")
       ELSE IF ~Lookup(index, cs[2]).found THEN Responded("Forbidden")
       ELSE IF Parse(Lookup(index, cs[2]).url).err THEN Responded("InternalError")
       ELSE [responses |-> <<>>,
             proxied |-> <<[path |-> req.path,
                            ctx |-> WithShardURL(req.ctx,
                                                 Parse(Lookup(index, cs[2]).url).url)]>>]

\* the server calls the handler with the request it received
ServeHTTP ==
    /\ ret.op = "request"
    /\ ret' = [op |-> "shardHandler", req |-> ret.req,
               out |-> shardHandler(ShardIndex, ret.req)]
    /\ UNCHANGED <<registry, terminating, handlers, handlersLock, newHandlers,
                   indexers, ppc, dpc, latest, ctxDone, waiting, added>>
    /\ UNCHANGED eventLog
    /\ UNCHANGED lockState

\* SpecShard: a request arrives and the handler serves it; the handler keeps
\* no state from one request to the next
InitShard ==
    /\ informers = EmptyMap
    /\ startedInformers = EmptyMap
    /\ informerStops = EmptyMap
    /\ terminating = FALSE
    /\ handlers = <<>>
    /\ handlersLock = 0
    /\ newHandlers = <<>>
    /\ indexers = {}
    /\ insts = EmptyMap
    /\ chans = EmptyMap
    /\ panicked = FALSE
    /\ ppc = [p \in Pollers |-> "idle"]
    /\ dpc = [p \in Pollers |-> "none"]
    /\ latest = [p \in Pollers |-> {}]
    /\ ctxDone = [p \in Pollers |-> FALSE]
    /\ waiting = {}
    /\ added = {}
    /\ \E req \in Requests : ret = [op |-> "request", req |-> req]
    /\ observed = EmptyMap
    /\ handled = EmptyMap
    /\ current = EmptyMap
    /\ received = [h \in Handlers |-> <<>>]
    /\ mu = [writer |-> "none", readers |-> {}]
    /\ lpc = [g \in LockGoroutines |-> "idle"]
    /\ snapshot = [g \in LockGoroutines |-> <<>>]
    /\ passLocal = NoPass

NextShard == ServeHTTP

SpecShard == InitShard /\ [][NextShard]_vars

(***************************************************************************)
(* Properties.                                                             *)
(***************************************************************************)
\* the discovered sets the discovery inputs produce
LatestSets == {Discover(in).val : in \in DiscoveryInputs}

\* informer inf has been run once, on stop channel stop, which is open
RunsOn(in, ch, inf, stop) ==
    /\ inf \in DOMAIN in
    /\ stop \in DOMAIN ch
    /\ in[inf].runs = 1
    /\ in[inf].stop = stop
    /\ ~ch[stop]

\* the registry holds a started informer for gvr
Watched(R, gvr) ==
    /\ gvr \in DOMAIN R.informers
    /\ gvr \in DOMAIN R.informerStops
    /\ gvr \in DOMAIN R.startedInformers
    /\ R.startedInformers[gvr]
    /\ RunsOn(R.insts, R.chans, R.informers[gvr], R.informerStops[gvr])

\* the polling goroutine of some StartPolling call has run its teardown
TornDown == \E p \in Pollers : ppc[p] = "done"

\* a discoverTypes call returns in this step
PassReturns == ret'.op = "discoverTypes"

\* C1: reconcile is idempotent.  In every state, for every discovered set D:
\* when a discovery pass with D has run, a second pass with D that follows it
\* with no other operation in between starts no informer, closes no stop
\* channel and leaves informers, informerStops and startedInformers as they are.
C1_ReconcileIdempotent ==
    (Quiet /\ ~panicked) =>
        \A D \in LatestSets :
            LET first == Reconcile(CurrentRegistry, D, indexers)
            IN ~first.R.panicked => Reconcile(first.R, D, indexers).R = first.R

\* a pass has just returned nil and left started informers for a discovered
\* set D; a second pass with D is possible and finds nothing to do
C1_Witness ==
    /\ ret.op = "discoverTypes"
    /\ ~ret.err
    /\ ppc["poller1"] = "loop"
    /\ \E D \in LatestSets :
          /\ D # {}
          /\ \A gvr \in D : Watched(CurrentRegistry, gvr)
          /\ Reconcile(CurrentRegistry, D, indexers).R = CurrentRegistry

\* C2: convergence.  A pass that returns nil with discovered set {A, B} on an
\* empty registry leaves started informers for exactly A and B; a pass that
\* returns nil with {B, C} on that registry leaves entries for exactly B and
\* C: the stop channel of A is closed and A is removed from the three maps, C
\* has a new informer that is started, and B keeps its informer and its stop
\* channel, neither closed nor run again.
C2_Convergence ==
    [][\A p \in Pollers :
         (dpc[p] = "write" /\ dpc'[p] = "none" /\ ~ret'.err) =>
            /\ (informers = EmptyMap /\ latest[p] = {gvrA, gvrB}) =>
                  /\ DOMAIN informers' = {gvrA, gvrB}
                  /\ \A gvr \in {gvrA, gvrB} :
                        /\ informers'[gvr] \notin DOMAIN insts
                        /\ informerStops'[gvr] \notin DOMAIN chans
                        /\ Watched(CurrentRegistry', gvr)
            /\ ( /\ DOMAIN informers = {gvrA, gvrB}
                 /\ Watched(CurrentRegistry, gvrA)
                 /\ Watched(CurrentRegistry, gvrB)
                 /\ latest[p] = {gvrB, gvrC} ) =>
                  /\ DOMAIN informers' = {gvrB, gvrC}
                  /\ DOMAIN informerStops' = {gvrB, gvrC}
                  /\ DOMAIN startedInformers' = {gvrB, gvrC}
                  /\ chans'[informerStops[gvrA]]
                  /\ informers'[gvrB] = informers[gvrB]
                  /\ informerStops'[gvrB] = informerStops[gvrB]
                  /\ insts'[informers[gvrB]] = insts[informers[gvrB]]
                  /\ Watched(CurrentRegistry', gvrB)
                  /\ informers'[gvrC] \notin DOMAIN insts
                  /\ informerStops'[gvrC] \notin DOMAIN chans
                  /\ Watched(CurrentRegistry', gvrC)
      ]_vars

\* the second pass of the scenario has just returned: B and C are watched by
\* their first informers, and the first informer of A is stopped and removed
C2_Witness ==
    /\ ret.op = "discoverTypes"
    /\ ~ret.err
    /\ DOMAIN informers = {gvrB, gvrC}
    /\ informers[gvrB] = <<gvrB, 1>>
    /\ informers[gvrC] = <<gvrC, 1>>
    /\ Watched(CurrentRegistry, gvrB)
    /\ Watched(CurrentRegistry, gvrC)
    /\ <<gvrA, 1>> \in DOMAIN insts
    /\ insts[<<gvrA, 1>>].runs = 1
    /\ chans[insts[<<gvrA, 1>>].stop]

\* C6: readiness gating.  Listers, while the factory is not terminating,
\* returns every key of d.informers in exactly one of its two results: with
\* the lister of its informer if the informer has synced, in notSynced
\* otherwise; and it returns no other key.
C6_ReadinessGating ==
    (ret.op = "Listers" /\ ~terminating) =>
        /\ DOMAIN ret.listers \cup ret.notSynced = DOMAIN informers
        /\ DOMAIN ret.listers \cap ret.notSynced = {}
        /\ \A gvr \in DOMAIN informers :
              /\ gvr \in DOMAIN ret.listers <=> HasSynced(insts[informers[gvr]])
              /\ gvr \in DOMAIN ret.listers => ret.listers[gvr] = informers[gvr]

\* Listers has returned a synced informer and one that is not
C6_Witness ==
    /\ ret.op = "Listers"
    /\ DOMAIN ret.listers # {}
    /\ ret.notSynced # {}

\* C7: once the polling context is cancelled and the teardown has run, every
\* Listers call returns an empty map and an empty notSynced.
C7_ListersEmptyAfterShutdown ==
    (TornDown /\ ret.op = "Listers") =>
        (ret.listers = EmptyMap /\ ret.notSynced = {})

\* C8: guaranteed cleanup on cancellation.  When StartPolling or its polling
\* goroutine exits on the cancelled context, at whatever point of the call,
\* the stop channel of every informer that has been run by then is closed.
C8_AllStoppedOnCancel ==
    [][\A p \in Pollers :
         (ppc[p] \notin {"returned", "done"} /\ ppc'[p] \in {"returned", "done"}) =>
            \A i \in DOMAIN insts' : insts'[i].runs > 0 => chans'[insts'[i].stop]
      ]_vars

\* the workspace lister fails, or the discovery call of a listed cluster does
InputFails(in) ==
    \/ in.workspaces.err
    \/ \E k \in 1..Len(in.workspaces.val) : in.resources[k].err

\* C10: a discovery pass is fail-fast.  A pass during which the workspace
\* lister or the discovery call of a listed logical cluster fails returns an
\* error in that step, without taking d.mu for writing, and leaves the
\* registry, its informers and its stop channels as they were.
C10_FailFast ==
    [][\A p \in Pollers, in \in DiscoveryInputs :
         (InputFails(in) /\ DiscoverTypesBegin(p, in)) =>
            /\ PassReturns
            /\ ret'.err
            /\ dpc'[p] = "none"
            /\ UNCHANGED registry
      ]_vars

\* a periodic pass has just failed while informers are running
C10_Witness ==
    /\ ret.op = "discoverTypes"
    /\ ret.err
    /\ indexers = {}
    /\ ppc["poller1"] = "loop"
    /\ \E gvr \in DOMAIN informers : Watched(CurrentRegistry, gvr)

\* the handlers called for the notification of the last step, in call order
Called == [k \in 1..Len(ret.calls) |-> ret.calls[k].handler]

\* C3: fan-out completeness.  When an informer dispatches a notification that
\* passes the filter, every handler whose AddEventHandler call had returned
\* before gets exactly one call, tagged with the key of that informer, and no
\* other handler gets a call.
C3_FanoutComplete ==
    (ret.op = "event" /\ Filtering(ret.notification) # "none") =>
        /\ \A h \in added :
              Cardinality({k \in 1..Len(ret.calls) : ret.calls[k].handler = h}) = 1
        /\ \A k \in 1..Len(ret.calls) :
              /\ ret.calls[k].handler \in added
              /\ ret.calls[k].gvr = insts[ret.inf].gvr

\* C4: registration is copy-then-publish without lost updates.  Whenever no
\* AddEventHandler call is in progress the published list holds every handler
\* whose call has returned, and a dispatch calls exactly the handlers of the
\* published list, in its order.
C4_NoLostRegistration ==
    /\ handlersLock = 0 => added \subseteq Range(handlers)
    /\ (ret.op = "event" /\ Filtering(ret.notification) # "none") => Called = handlers

\* C9: after the teardown of the polling goroutine has finished no informer
\* goroutine is running and no notification is dispatched to a handler.
C9_NothingRunsAfterShutdown ==
    TornDown =>
        /\ \A i \in DOMAIN insts : ~Running(insts[i])
        /\ ret.op = "event" => ret.calls = <<>>

\* C5: pinning.  For every discovered set, no pinned key is in toRemove; a
\* pass leaves the entry of a pinned key, its informer and its stop channel as
\* they are, closing nothing; and when the informer of a pinned key has synced,
\* Listers returns it in its ready map after the pass.
C5_Pinning ==
    [][\A gvr \in PinnedGVRs \cap DOMAIN informers :
         /\ \A D \in LatestSets :
               gvr \notin calculateInformersLockHeld(informers, D).toRemove
         /\ PassReturns =>
               /\ gvr \in DOMAIN informers'
               /\ informers'[gvr] = informers[gvr]
               /\ insts'[informers[gvr]] = insts[informers[gvr]]
               /\ gvr \in DOMAIN informerStops =>
                     /\ gvr \in DOMAIN informerStops'
                     /\ informerStops'[gvr] = informerStops[gvr]
                     /\ chans'[informerStops[gvr]] = chans[informerStops[gvr]]
               /\ HasSynced(insts[informers[gvr]]) =>
                     gvr \in DOMAIN ListersLockHeld(informers', insts', terminating').listers
      ]_vars

\* a pass has just removed the informer of a key that is not pinned and kept
\* the synced informers of both pinned keys, which no discovered set holds
C5_Witness ==
    /\ ret.op = "discoverTypes"
    /\ ~ret.err
    /\ \A gvr \in PinnedGVRs :
          /\ Watched(CurrentRegistry, gvr)
          /\ HasSynced(insts[informers[gvr]])
          /\ \A D \in LatestSets : gvr \notin D
    /\ \E i \in DOMAIN insts : i[1] \notin DOMAIN informers /\ chans[insts[i].stop]

\* what the logical clusters of an input report: every APIResource with the
\* group/version of its list
Reported(in) ==
    UNION { UNION { {[gv |-> list.GroupVersion, ai |-> ai] : ai \in list.APIResources} :
                      list \in in.resources[k].val } :
              k \in 1..Len(in.workspaces.val) }

\* every group/version the clusters report parses
WellFormed(in) == \A e \in Reported(in) : Len(e.gv) <= 2

Observable(ai) == ai.Namespaced /\ {"list", "watch"} \subseteq ai.Verbs
IsSubresource(ai) == Len(ai.Name) > 1

KeyOf(e) ==
    GVR(IF Len(e.gv) = 1 THEN "" ELSE e.gv[1], e.gv[Len(e.gv)], e.ai.Name)

\* the pass of this step hands the set D to calculateInformersLockHeld
HandsOver(p, D) ==
    /\ dpc'[p] = "write" => latest'[p] = D
    /\ dpc'[p] = "none" =>
          /\ PassReturns /\ ~ret'.err
          /\ calculateInformersLockHeld(informers, D).toAdd = {}
          /\ calculateInformersLockHeld(informers, D).toRemove = {}

\* C11 as stated: the set a pass hands to reconciliation is the union, over
\* the listed logical clusters, of every reported resource that is namespaced
\* and supports list and watch; the other resources cause no error.
C11_DiscoveredUnionAsStated ==
    [][\A p \in Pollers, in \in AllDiscoveryInputs :
         (DiscoverTypesBegin(p, in) /\ ~InputFails(in) /\ WellFormed(in)) =>
            HandsOver(p, {KeyOf(e) : e \in {x \in Reported(in) : Observable(x.ai)}})
      ]_vars

\* C11: the set a pass hands to reconciliation is the union, over the listed
\* logical clusters, of every reported resource that is not a subresource
\* (name with a "/"), is namespaced and supports list and watch; a resource
\* that is cluster-scoped or lacks a verb in every cluster is not in the set,
\* and the pass returns no error because of it.
C11_DiscoveredUnion ==
    [][\A p \in Pollers, in \in AllDiscoveryInputs :
         (DiscoverTypesBegin(p, in) /\ ~InputFails(in) /\ WellFormed(in)) =>
            /\ HandsOver(p, {KeyOf(e) : e \in {x \in Reported(in) :
                                 Observable(x.ai) /\ ~IsSubresource(x.ai)}})
            /\ \A e \in Reported(in) :
                  (\A x \in Reported(in) : KeyOf(x) = KeyOf(e) => ~Observable(x.ai))
                      => KeyOf(e) \notin latest'[p]
      ]_vars

\* a pass is about to reconcile the union {as, bs, cs} of two clusters
C11_Witness ==
    /\ dpc["poller1"] = "write"
    /\ latest["poller1"] = {gvrA, gvrB, gvrC}
    /\ informers = EmptyMap

\* C12: failure isolation inside reconcile.  When the locked part of a pass
\* runs with a delta, every key of toRemove ends closed and deleted from the
\* maps and every key of toAdd whose informer can be created ends watched,
\* also when the creation of the informer of another key of toAdd fails.
C12_FailureIsolation ==
    [][\A p \in Pollers :
         (dpc[p] = "write" /\ dpc'[p] = "none") =>
            LET calc == calculateInformersLockHeld(informers, latest[p])
            IN /\ \A gvr \in calc.toRemove :
                     /\ gvr \notin DOMAIN informers'
                     /\ gvr \in DOMAIN informerStops => chans'[informerStops[gvr]]
               /\ \A gvr \in calc.toAdd :
                     ~informerForResourceLockHeld(CurrentRegistry, gvr, indexers).err
                         => Watched(CurrentRegistry', gvr)
      ]_vars

\* C13: at most one entry per key.  No step replaces the informer of a key
\* that is in d.informers, and an informer is created for a key only when
\* d.informers has no entry for the key; the new informer becomes its entry.
C13_OneEntryPerKey ==
    [][/\ \A gvr \in DOMAIN informers \cap DOMAIN informers' :
             informers'[gvr] = informers[gvr]
       /\ \A i \in DOMAIN insts' \ DOMAIN insts :
             /\ i[1] \notin DOMAIN informers
             /\ i[1] \in DOMAIN informers'
             /\ informers'[i[1]] = i
      ]_vars

\* two InformerForResource calls for one key have both missed it in their
\* look-up; the first has created the informer, the second is about to take
\* d.mu
C13_Witness ==
    /\ ret.op = "InformerForResource"
    /\ ~ret.err
    /\ ret.inf = <<ret.gvr, 1>>
    /\ informers[ret.gvr] = ret.inf
    /\ \E c \in Callers : <<c, ret.gvr>> \in waiting

\* C14: no informer is started twice and no stop channel is closed twice:
\* Run is called at most once on every informer, and close is never called
\* on a stop channel that is already closed.
C14_NoDoubleStartOrStop ==
    /\ ~panicked
    /\ \A i \in DOMAIN insts : insts[i].runs <= 1

\* the comparison of d.informers with the discovered set D finds no work
NoDelta(infs, D) ==
    /\ calculateInformersLockHeld(infs, D).toAdd = {}
    /\ calculateInformersLockHeld(infs, D).toRemove = {}

\* C15: optimistic check, then exclusive re-check.  When a pass takes d.mu
\* for writing while another pass with the same discovered set waits for it,
\* it leaves no work for that pass; a pass that finds no work under the write
\* lock returns nil and starts nothing, closes nothing and changes no map;
\* and no pass runs an informer that has been run before.
C15_RecheckUnderLock ==
    [][\A p \in Pollers :
         (dpc[p] = "write" /\ dpc'[p] = "none") =>
            /\ \A q \in Pollers \ {p} :
                  (dpc[q] = "write" /\ latest[q] = latest[p]) =>
                      NoDelta(informers', latest[q])
            /\ NoDelta(informers, latest[p]) =>
                  /\ UNCHANGED registry
                  /\ ret' = [op |-> "discoverTypes", err |-> FALSE]
            /\ \A i \in DOMAIN insts : insts'[i].runs = insts[i].runs
      ]_vars

\* two passes found the same delta under the read lock; the first has done
\* the work and returned, the second is about to take the write lock
C15_Witness ==
    /\ ret = [op |-> "discoverTypes", err |-> FALSE]
    /\ dpc["poller1"] = "none"
    /\ dpc["poller2"] = "write"
    /\ latest["poller2"] = {gvrA, gvrB}
    /\ NoDelta(informers, latest["poller2"])
    /\ \A gvr \in latest["poller2"] : Watched(CurrentRegistry, gvr)

\* C16: removal.  The locked part of a pass closes the stop channel of every
\* key of toRemove that has one and deletes the key from d.informers,
\* d.informerStops and d.startedInformers; Listers then returns the key
\* neither in its ready map nor in notSynced.
C16_Removal ==
    [][\A p \in Pollers :
         (dpc[p] = "write" /\ dpc'[p] = "none") =>
            \A gvr \in calculateInformersLockHeld(informers, latest[p]).toRemove :
                /\ gvr \in DOMAIN informerStops => chans'[informerStops[gvr]]
                /\ gvr \notin DOMAIN informers'
                /\ gvr \notin DOMAIN informerStops'
                /\ gvr \notin DOMAIN startedInformers'
                /\ gvr \notin DOMAIN ListersLockHeld(informers', insts', terminating').listers
                /\ gvr \notin ListersLockHeld(informers', insts', terminating').notSynced
      ]_vars

\* the StartPolling call of p has not returned to its caller
InStartPolling(pc) == pc \in {"initial", "retry"}

C18_NonBlocking ==
    [][\A p \in Pollers :
         (ppc[p] = "initial" /\ ppc'[p] # "initial") => ~InStartPolling(ppc'[p])
      ]_vars

\* the calls handler h got from informer i, in the order it got them
RECURSIVE CallsFrom(_, _)
CallsFrom(calls, i) ==
    IF calls = <<>> THEN <<>>
    ELSE IF Head(calls).inf = i THEN <<Head(calls)>> \o CallsFrom(Tail(calls), i)
    ELSE CallsFrom(Tail(calls), i)

\* the queued notifications of informer i that pass the filter: their indices
Passing(i) ==
    { k \in 1..Len(observed[i]) : Filtering(observed[i][k]) # "none" }

\* C19: per-type ordering.  The calls a handler gets from one informer are
\* calls for notifications of that informer in the order the informer queued
\* them, one call per notification: none twice, none out of order, and none
\* left out between two that the handler got; each call carries the key of
\* the informer and the kind of its notification.
C19_PerTypeOrdering ==
    \A h \in Handlers : \A i \in DOMAIN observed :
        LET s == CallsFrom(received[h], i)
        IN /\ \A k \in 1..Len(s) :
                 /\ s[k].idx \in Passing(i)
                 /\ s[k].gvr = insts[i].gvr
                 /\ s[k].kind = observed[i][s[k].idx].kind
           /\ \A k \in 1..(Len(s) - 1) :
                 /\ s[k].idx < s[k + 1].idx
                 /\ \A m \in Passing(i) : ~(s[k].idx < m /\ m < s[k + 1].idx)

\* a handler has got the add, the update and the delete of an object from
\* one informer, in that order
C19_Witness ==
    \E h \in Handlers : \E i \in DOMAIN observed :
        /\ Len(observed[i]) = 3
        /\ observed[i][1].kind = "add"
        /\ observed[i][2].kind = "update"
        /\ observed[i][3].kind = "delete"
        /\ Len(CallsFrom(received[h], i)) = 3
        /\ \A k \in 1..3 : CallsFrom(received[h], i)[k].idx = k

\* the keys of d.informers whose informer is running
RunningKeys == { gvr \in DOMAIN informers : Running(insts[informers[gvr]]) }

\* the discovered set of every pass of SpecConverge
ConvergeSet == {gvrA}

\* C20: eventual convergence.  When every pass succeeds with the discovered
\* set D and the loop keeps ticking, from some point on the keys with a
\* running informer are exactly D and the pinned keys of d.informers.
C20_EventualConvergence ==
    <>[](RunningKeys = ConvergeSet \cup (PinnedGVRs \cap DOMAIN informers))

\* the step is the return of a periodic pass of p with an error
PeriodicPassFails(p) ==
    /\ ppc[p] = "loop"
    /\ PassReturns
    /\ ret'.err
    /\ \/ dpc[p] = "write" /\ dpc'[p] = "none"
       \/ \E in \in DiscoveryInputs : DiscoverTypesBegin(p, in)

\* C21: a failed periodic pass stops neither the loop nor the registry.  When
\* a pass of the polling goroutine returns an error, the goroutine stays in
\* its loop, ready for the pass of the next tick; every informer that was
\* running still runs on its stop channel, which stays open if it was open;
\* and no key leaves d.informers.
C21_FailedPassKeepsLoop ==
    [][\A p \in Pollers :
         PeriodicPassFails(p) =>
            /\ ppc'[p] = "loop"
            /\ dpc'[p] = "none"
            /\ ~panicked'
            /\ \A i \in DOMAIN insts :
                  /\ insts'[i] = insts[i]
                  /\ Running(insts[i]) => chans'[insts[i].stop] = chans[insts[i].stop]
            /\ \A gvr \in DOMAIN informers :
                  gvr \in DOMAIN informers' /\ informers'[gvr] = informers[gvr]
      ]_vars

\* a periodic pass has just failed in its locked part, at the creation of an
\* informer, while a synced informer is watched; the loop goes on
C21_Witness ==
    /\ ret = [op |-> "discoverTypes", err |-> TRUE]
    /\ ppc["poller1"] = "loop"
    /\ ~ctxDone["poller1"]
    /\ indexers # {}
    /\ \E gvr \in DOMAIN informers :
          /\ Watched(CurrentRegistry, gvr)
          /\ insts[informers[gvr]].phase = "Synced"

\* the step creates no informer and runs none
NoNewWatch ==
    /\ DOMAIN insts' = DOMAIN insts
    /\ \A i \in DOMAIN insts : insts'[i].runs = insts[i].runs

\* C22: shutdown ordering.  The teardown closes the stop channels only when
\* the polling goroutine has left its loop with no pass in progress; once the
\* context of the loop is cancelled no pass of that loop creates or runs an
\* informer; and after the teardown no step creates or runs an informer.
C22_ShutdownOrdering ==
    [][/\ \A p \in Pollers :
             /\ (ppc[p] = "loop" /\ ppc'[p] = "done") => (dpc[p] = "none" /\ ctxDone[p])
             /\ (ctxDone[p] /\ dpc[p] = "write" /\ dpc'[p] = "none") => NoNewWatch
       /\ TornDown => NoNewWatch
      ]_vars

\* the place of a phase in Created, Syncing, Synced, Stopped
PhaseRank(phase) ==
    CASE phase = "Created" -> 0
      [] phase = "Syncing" -> 1
      [] phase = "Synced" -> 2
      [] phase = "Stopped" -> 3

\* what the factory and the goroutine of informer inf agree on in each phase
PhaseConsistent(in, ch, inf) ==
    /\ in[inf].phase \in {"Created", "Syncing", "Synced", "Stopped"}
    /\ in[inf].phase = "Created" <=> in[inf].runs = 0
    /\ in[inf].phase = "Created" <=> in[inf].stop = NoChan
    /\ in[inf].runs <= 1
    /\ in[inf].phase = "Stopped" => ch[in[inf].stop]
    /\ in[inf].synced => in[inf].phase \in {"Synced", "Stopped"}
    /\ in[inf].phase = "Synced" => in[inf].synced

\* C23: the state machine of a watch.  Every informer is Created, Syncing,
\* Synced or Stopped and only moves forward in that order; a stopped informer
\* is left as it is for ever and none is run a second time; a key that enters
\* d.informers gets an informer that did not exist before; and the phase
\* agrees with the run count and the stop channel: not run and without channel
\* exactly while Created, stopped only with its channel closed.
C23_WatchStateMachine ==
    [][/\ \A i \in DOMAIN insts :
             /\ i \in DOMAIN insts'
             /\ PhaseRank(insts'[i].phase) >= PhaseRank(insts[i].phase)
             /\ insts[i].phase = "Stopped" => insts'[i] = insts[i]
             /\ insts[i].runs > 0 =>
                   (insts'[i].runs = insts[i].runs /\ insts'[i].stop = insts[i].stop)
       /\ \A gvr \in DOMAIN informers' \ DOMAIN informers :
             informers'[gvr] \notin DOMAIN insts
       /\ \A i \in DOMAIN insts' \ DOMAIN insts : insts'[i].phase \in {"Created", "Syncing"}
       /\ \A i \in DOMAIN insts' : PhaseConsistent(insts', chans', i)
      ]_vars

\* the first informer of a key went through its phases and is stopped and
\* removed; the key was discovered again and its second informer has synced
C23_Witness ==
    \E gvr \in DOMAIN informers :
        /\ informers[gvr] = <<gvr, 2>>
        /\ insts[<<gvr, 2>>].phase = "Synced"
        /\ insts[<<gvr, 1>>].phase = "Stopped"
        /\ insts[<<gvr, 1>>].synced

\* informer i was run and is not the entry of its key: a pass removed it
Removed(i) ==
    /\ insts[i].runs > 0
    /\ Get(informers, i[1], NoInformer) # i

SameWatches(R1, R2) ==
    /\ \A gvr \in DOMAIN R1.informers :
          /\ gvr \in DOMAIN R2.informers
          /\ R2.informers[gvr] = R1.informers[gvr]
    /\ \A i \in DOMAIN R1.insts : R2.insts[i] = R1.insts[i]
    /\ \A c \in DOMAIN R1.chans : R2.chans[c] = R1.chans[c]

\* C25: watch-open failure is isolated and retried.  When a pass fails at the
\* creation of the informer of key K, no entry for K is stored, the informers
\* of the other keys and their stop channels stay as they were, and the next
\* pass whose discovered set holds K has K in toAdd and calls the creation of
\* the informer of K again.
C25_OpenFailureRetried ==
    (Quiet /\ ~panicked) =>
        \A D1 \in LatestSets :
            LET first == Reconcile(CurrentRegistry, D1, indexers)
                calc1 == calculateInformersLockHeld(informers, D1)
            IN first.err =>
                 \A K \in AddLoopFailed(CurrentRegistry, InOrder(calc1.toAdd, GVROrder), indexers) :
                    /\ K \notin DOMAIN first.R.informers
                    /\ K \notin DOMAIN first.R.informerStops
                    /\ K \notin DOMAIN first.R.startedInformers
                    /\ SameWatches(CurrentRegistry, first.R)
                    /\ \A D2 \in LatestSets :
                          K \in D2 =>
                             LET calc2 == calculateInformersLockHeld(first.R.informers, D2)
                             IN /\ K \in calc2.toAdd
                                /\ K \in AddLoopAttempted(first.R, InOrder(calc2.toAdd, GVROrder),
                                                         indexers)

\* an InformerForResource call returns in this step
LookupReturns == ret'.op = "InformerForResource"

\* what C26 says of every step but the outcome of a failed creation
LookupFrame ==
    /\ LookupReturns =>
          /\ \A i \in DOMAIN insts : insts'[i] = insts[i]
          /\ chans' = chans
          /\ startedInformers' = startedInformers
          /\ informerStops' = informerStops
          /\ ret'.gvr \in DOMAIN informers =>
                (ret'.inf = informers[ret'.gvr] /\ ~ret'.err /\ UNCHANGED registry)
          /\ ~ret'.err =>
                /\ informers' = MapPut(informers, ret'.gvr, ret'.inf)
                /\ ret'.gvr \notin DOMAIN informers =>
                      /\ ret'.inf \notin DOMAIN insts
                      /\ insts'[ret'.inf] = NewInformer(ret'.gvr)
    /\ \A gvr \in DOMAIN informers \cap DOMAIN informers' :
          informers'[gvr] = informers[gvr]
    /\ \A i \in DOMAIN insts :
          insts'[i].runs # insts[i].runs => (Start \/ \E p \in Pollers : DiscoverTypesWrite(p))

\* C26 as stated: InformerForResource returns the registered informer of gvr
\* or else creates, registers and returns a new one, in every call.
C26_FindOrCreateAsStated ==
    [][/\ LookupFrame
       /\ LookupReturns => ~ret'.err
      ]_vars

\* C26: InformerForResource returns the registered informer of gvr when there
\* is one; otherwise it creates, registers and returns a new one, or, when
\* the indexers of the factory cannot be added to the new informer, returns
\* the error and registers nothing.  It runs no informer: run counts change
\* only in Start or in the locked part of a pass.  While a key stays in
\* d.informers its informer is not replaced, so all calls return the same one.
C26_FindOrCreate ==
    [][/\ LookupFrame
       /\ (LookupReturns /\ ret'.err) =>
             /\ InformerAddIndexers(indexers).err
             /\ ret'.gvr \notin DOMAIN informers
             /\ ret'.inf = NoInformer
             /\ UNCHANGED registry
      ]_vars

\* a pass removed the started informer of the key; a call has just created
\* and returned a second informer for it, registered and not started
C26_Witness ==
    /\ ret.op = "InformerForResource"
    /\ ~ret.err
    /\ ret.inf = <<ret.gvr, 2>>
    /\ informers[ret.gvr] = ret.inf
    /\ insts[ret.inf].phase = "Created"
    /\ ret.gvr \notin DOMAIN startedInformers
    /\ insts[<<ret.gvr, 1>>].runs = 1
    /\ chans[insts[<<ret.gvr, 1>>].stop]

\* d.startedInformers[gvr], false when the map has no gvr
IsStarted(gvr) == Get(startedInformers, gvr, FALSE)

\* C27: Start runs exactly the registered informers that are not marked
\* started, each once and on a new stop channel of its own that the factory
\* stores and marks; it leaves every started informer, its stop channel and
\* d.informers as they are; and a second Start right after starts nothing.
C27_StartStartsUnstarted ==
    [][Start =>
         /\ informers' = informers
         /\ DOMAIN insts' = DOMAIN insts
         /\ \A gvr \in DOMAIN informers :
               IF IsStarted(gvr)
               THEN /\ insts'[informers[gvr]] = insts[informers[gvr]]
                    /\ gvr \in DOMAIN informerStops =>
                          /\ informerStops'[gvr] = informerStops[gvr]
                          /\ chans'[informerStops[gvr]] = chans[informerStops[gvr]]
                    /\ startedInformers'[gvr]
               ELSE /\ insts[informers[gvr]].runs = 0
                    /\ insts'[informers[gvr]].runs = 1
                    /\ informerStops'[gvr] \notin DOMAIN chans
                    /\ \A other \in DOMAIN informers \ {gvr} :
                          informerStops'[other] # informerStops'[gvr]
                    /\ Watched(CurrentRegistry', gvr)
         /\ \A c \in DOMAIN chans : chans'[c] = chans[c]
         /\ \A i \in DOMAIN insts : i \notin Range(informers) => insts'[i] = insts[i]
         /\ StartLoop(CurrentRegistry', InOrder(DOMAIN informers', GVROrder)) = CurrentRegistry'
      ]_vars

\* no discovery pass has run: Start has run the informer that
\* InformerForResource created, on the first stop channel made for it
C27_Witness ==
    /\ ppc["poller1"] = "idle"
    /\ ret = NoRet
    /\ Watched(CurrentRegistry, gvrA)
    /\ informerStops[gvrA] = <<informers[gvrA], 1>>

\* C28: after the teardown of the polling goroutine has closed the stop
\* channels, an informer is run only by a discoverTypes call, and no informer
\* goroutine runs on an open stop channel.
C28_NoWatchAfterTeardown ==
    [][TornDown =>
         /\ \A i \in DOMAIN insts' :
               insts'[i].runs > Get(insts, i, NewInformer(i[1])).runs =>
                   \E p \in Pollers : DiscoverTypesWrite(p)
         /\ \A i \in DOMAIN insts' :
               Running(insts'[i]) => chans'[insts'[i].stop]
      ]_vars

ReadSections == {"listing", "lookup", "diff"}
WriteSections == {"create", "created", "starting", "reconcile"}

\* C29: lock discipline.  A step that changes d.informers, d.informerStops
\* or d.startedInformers is a step of the goroutine that holds d.mu for
\* writing, while no goroutine holds it for reading; the maps stay as they
\* were at its RLock for as long as a goroutine holds the read lock, so no
\* mutation overlaps a Listers call or another mutation; and Listers, the
\* look-up and the comparison of a pass hold d.mu for reading only.
C29_LockDiscipline ==
    [][/\ RegistryMaps' # RegistryMaps =>
             /\ mu.writer # "none"
             /\ mu.readers = {}
             /\ mu' = mu
             /\ lpc[mu.writer] \in WriteSections
             /\ \A g \in LockGoroutines \ {mu.writer} : lpc'[g] = lpc[g]
       /\ \A g \in mu'.readers : snapshot'[g] = RegistryMaps'
       /\ \A g \in LockGoroutines :
             /\ lpc'[g] \in ReadSections <=> g \in mu'.readers
             /\ lpc'[g] \in WriteSections <=> mu'.writer = g
             /\ lpc'[g] \in ReadSections => mu'.writer = "none"
      ]_vars

\* two Listers calls and the comparison of a pass hold d.mu for reading at
\* the same time, on a registry with started informers, while the
\* InformerForResource call waits for the write lock
C29_Witness ==
    /\ mu.readers = {"lister1", "lister2", "pass"}
    /\ mu.writer = "none"
    /\ lpc["finder"] = "missed"
    /\ \E gvr \in DOMAIN informers : Watched(CurrentRegistry, gvr)

\* the keys Listers would return in its ready map
Ready(infs, in, term) == DOMAIN ListersLockHeld(infs, in, term).listers

C33_DiscoveredStarted ==
    [][\A p \in Pollers :
         (dpc[p] = "write" /\ dpc'[p] = "none" /\ ~ret'.err) =>
            \A gvr \in latest[p] :
                /\ gvr \in DOMAIN startedInformers'
                /\ startedInformers'[gvr]
                /\ gvr \in DOMAIN informerStops'
      ]_vars

\* C34: registry map consistency.  In every reachable state in which no
\* operation holds d.mu exclusively, the key sets of informerStops and of
\* startedInformers are equal and are a subset of the key set of informers,
\* startedInformers holds only true values, and, until the teardown of a
\* polling goroutine has run, every stop channel stored in informerStops is
\* open.
C34_RegistryConsistent ==
    mu.writer = "none" =>
        /\ DOMAIN informerStops = DOMAIN startedInformers
        /\ DOMAIN informerStops \subseteq DOMAIN informers
        /\ \A gvr \in DOMAIN startedInformers : startedInformers[gvr]
        /\ ~TornDown =>
              \A gvr \in DOMAIN informerStops :
                  /\ informerStops[gvr] \in DOMAIN chans
                  /\ ~chans[informerStops[gvr]]

\* before any teardown, a pass has returned nil and left a started informer
\* with an open stop channel, next to an informer made by InformerForResource
\* that has no entry in informerStops and startedInformers
C34_Witness ==
    /\ ~TornDown
    /\ ~panicked
    /\ ret.op = "discoverTypes"
    /\ ~ret.err
    /\ DOMAIN informerStops # {}
    /\ DOMAIN informerStops # DOMAIN informers
    /\ \A gvr \in DOMAIN informerStops : ~chans[informerStops[gvr]]

\* C35: pinning only protects against removal.  In every pass informersToAdd
\* is a subset of the discovered set, so a pass never creates an informer for
\* a pinned key that is absent from the discovered set and has no entry in
\* d.informers; such an entry appears only in a step in which
\* InformerForResource creates it (or in a pass that discovered the key).
C35_PinningOnlyProtects ==
    [][/\ \A p \in Pollers :
            (dpc[p] = "write" /\ dpc'[p] = "none") =>
               /\ calculateInformersLockHeld(informers, latest[p]).toAdd
                      \subseteq latest[p]
               /\ \A gvr \in PinnedGVRs :
                     (gvr \notin latest[p] /\ gvr \notin DOMAIN informers) =>
                        gvr \notin DOMAIN informers'
       /\ \A gvr \in PinnedGVRs :
            (gvr \notin DOMAIN informers /\ gvr \in DOMAIN informers') =>
               \/ /\ ret'.op = "InformerForResource"
                  /\ ret'.gvr = gvr
                  /\ ~ret'.err
                  /\ ret'.inf = informers'[gvr]
               \/ \E p \in Pollers :
                     dpc[p] = "write" /\ dpc'[p] = "none" /\ gvr \in latest[p]
      ]_vars

\* a pass has just returned nil and started an informer while one pinned key,
\* asked for through InformerForResource, has an entry and the other pinned
\* key, discovered by no pass and asked for by nobody, has none
C35_Witness ==
    /\ ret.op = "discoverTypes"
    /\ ~ret.err
    /\ DOMAIN informerStops # {}
    /\ PinnedGVRs \cap DOMAIN informers = {apibindingsGVR}

\* a pass that returns nil (a pass that panics returns nothing) removes every
\* registered informer of a non-pinned key that its discovered set lacks: an
\* informer that was not started is left untouched and no channel is closed
\* for it, the stop channel of a started one is open before the pass and
\* closed by it
RemovedByPass ==
    \A p \in Pollers :
        (dpc[p] = "write" /\ dpc'[p] = "none" /\ ~ret'.err /\ ~panicked') =>
            \A gvr \in DOMAIN informers \ (PinnedGVRs \cup latest[p]) :
                /\ gvr \notin DOMAIN informers'
                /\ gvr \notin DOMAIN informerStops'
                /\ gvr \notin DOMAIN startedInformers'
                /\ gvr \notin DOMAIN informerStops =>
                      /\ insts'[informers[gvr]] = insts[informers[gvr]]
                      /\ insts[informers[gvr]].runs = 0
                      /\ \A ch \in DOMAIN chans :
                            (chans'[ch] /\ ~chans[ch]) =>
                                \E other \in DOMAIN informerStops :
                                    informerStops[other] = ch
                /\ gvr \in DOMAIN informerStops =>
                      /\ ~chans[informerStops[gvr]]
                      /\ chans'[informerStops[gvr]]

\* the call of InformerForResource that finds no entry for a key whose earlier
\* informers were removed creates an informer that is none of the earlier ones, registers it and does not start it
RecreatedNotStarted ==
    /\ ret'.inf \notin DOMAIN insts
    /\ ret'.inf \in DOMAIN insts'
    /\ informers'[ret'.gvr] = ret'.inf
    /\ insts'[ret'.inf].phase = "Created"
    /\ insts'[ret'.inf].runs = 0
    /\ ret'.gvr \notin DOMAIN startedInformers'
    /\ ret'.gvr \notin DOMAIN informerStops'

\* C36 as stated: an informer created through InformerForResource for a
\* non-pinned key absent from the discovered set of the next successful pass
\* is removed by that pass, with nothing closed when it was never started and
\* its stop channel closed exactly once when Start had started it; a later
\* InformerForResource for the key returns a new, distinct, not-started
\* informer.
C36_RemovedThenRecreatedAsStated ==
    [][/\ RemovedByPass
       /\ ( /\ ret'.op = "InformerForResource"
            /\ ret'.gvr \notin DOMAIN informers
            /\ \E inf \in DOMAIN insts : insts[inf].gvr = ret'.gvr ) =>
             RecreatedNotStarted
      ]_vars

\* C36, amended: as stated, except that the later InformerForResource either
\* returns the error of adding the factory's indexers, with no informer and
\* the registry unchanged, or returns a new, distinct, not-started informer.
C36_RemovedThenRecreated ==
    [][/\ RemovedByPass
       /\ ( /\ ret'.op = "InformerForResource"
            /\ ret'.gvr \notin DOMAIN informers
            /\ \E inf \in DOMAIN insts : insts[inf].gvr = ret'.gvr ) =>
             IF ret'.err
             THEN /\ InformerAddIndexers(indexers).err
                  /\ ret'.inf = NoInformer
                  /\ UNCHANGED registry
             ELSE RecreatedNotStarted
      ]_vars

\* two informers of the key have been removed by passes that returned nil:
\* the first had been started and its stop channel is closed, the second was
\* removed as InformerForResource had made it, never run
C36_Witness ==
    /\ ret.op = "discoverTypes"
    /\ ~ret.err
    /\ gvrA \notin DOMAIN informers
    /\ <<gvrA, 2>> \in DOMAIN insts
    /\ insts[<<gvrA, 2>>].runs = 0
    /\ insts[<<gvrA, 1>>].runs = 1
    /\ chans[insts[<<gvrA, 1>>].stop]

\* C37: event filtering.  A notification about an object for which filterFunc
\* returns false (in its old and in its new state) makes no call to any
\* handler, and a notification that passes the filter calls every handler
\* whose AddEventHandler call had returned before the notification, whether
\* it registered before or after the informer was created.
C37_EventFiltering ==
    ret.op = "event" =>
        /\ ( /\ ~filterFunc(ret.notification.oldObj)
             /\ ~filterFunc(ret.notification.newObj) ) => ret.calls = <<>>
        /\ Filtering(ret.notification) # "none" =>
              \A h \in added : \E k \in 1..Len(ret.calls) : ret.calls[k].handler = h

\* C38: subresources are never watched.  A reported resource whose name
\* contains "/" is in no discovered set, also when it is namespaced and
\* supports list and watch, and no informer is created or registered for it
\* by a pass.
C38_SubresourcesNeverWatched ==
    /\ \A p \in Pollers : \A gvr \in latest[p] : Len(gvr.Resource) = 1
    /\ \A gvr \in DOMAIN informers : Len(gvr.Resource) = 1
    /\ \A inf \in DOMAIN insts : Len(insts[inf].gvr.Resource) = 1

\* a pass over the resource list that reports cs next to the namespaced
\* subresource as/status with every verb has returned nil: the only informer
\* ever created is the one of cs, and it is started
C38_Witness ==
    /\ ret.op = "discoverTypes"
    /\ ~ret.err
    /\ DOMAIN insts = {<<gvrC, 1>>}
    /\ Watched(CurrentRegistry, gvrC)

\* C39: AddIndexers is all-or-nothing.  When a call returns the "already
\* exists" error the indexers of the factory are exactly those before the
\* call; when it returns nil every name of the call has been added and none
\* of them was there before, so that no existing indexer is replaced.
C39_AddIndexersAllOrNothing ==
    [][ret'.op = "AddIndexers" =>
          IF ret'.err
          THEN indexers' = indexers
          ELSE /\ indexers' = indexers \cup Range(ret'.names)
               /\ Range(ret'.names) \cap indexers = {}
      ]_vars

\* the path is /clusters/<name>/<rest>: after any leading "/", the word
\* clusters, a "/", a name without "/" that ends at position j, where the next
\* "/" stands, and the rest
ClusterFormAt(path, k, j) ==
    /\ \A x \in 1..k : path[x] = "/"
    /\ k + 2 < j
    /\ j <= Len(path)
    /\ path[k + 1] = "clusters"
    /\ path[k + 2] = "/"
    /\ path[j] = "/"
    /\ \A x \in (k + 3)..(j - 1) : path[x] # "/"

HasClusterForm(path) ==
    \E k \in 0..Len(path), j \in 1..Len(path) : ClusterFormAt(path, k, j)

\* <name> of a path of that form
ClusterNameOf(path) ==
    LET at == CHOOSE kj \in (0..Len(path)) \X (1..Len(path)) :
                  ClusterFormAt(path, kj[1], kj[2])
    IN SubSeq(path, at[1] + 3, at[2] - 1)

\* every check of the request passes
Routable(req) ==
    /\ HasClusterForm(req.path)
    /\ req.ctx.requestInfo
    /\ IsValidCluster(ClusterNameOf(req.path))
    /\ ClusterNameOf(req.path) \in DOMAIN ShardIndex
    /\ ~Parse(ShardIndex[ClusterNameOf(req.path)]).err

\* the responses the claim names for the checks that req fails
ResponsesFor(req) ==
    {r \in {"NotFound"} : ~HasClusterForm(req.path)}
    \cup {r \in {"Forbidden"} :
             /\ HasClusterForm(req.path)
             /\ \/ ~IsValidCluster(ClusterNameOf(req.path))
                \/ ClusterNameOf(req.path) \notin DOMAIN ShardIndex}
    \cup {r \in {"InternalError"} :
             \/ ~req.ctx.requestInfo
             \/ /\ HasClusterForm(req.path)
                /\ ClusterNameOf(req.path) \in DOMAIN ShardIndex
                /\ Parse(ShardIndex[ClusterNameOf(req.path)]).err}

\* C40: shardHandler forwards a request to the proxy at most once, and only
\* when its path is /clusters/<name>/<rest>, its authorizer attributes are
\* available, <name> is a valid cluster name, the index knows the cluster and
\* the shard URL parses; the forwarded request has the path of the request
\* and carries the parsed shard URL in its context.  Otherwise the proxy is
\* not called and the handler writes exactly one response: not-found for a
\* malformed path, forbidden for an invalid or unknown cluster, internal
\* error for missing attributes or an unparsable shard URL.
C40_ShardRouting ==
    ret.op = "shardHandler" =>
        /\ Len(ret.out.proxied) <= 1
        /\ Len(ret.out.proxied) = 1 <=> Routable(ret.req)
        /\ Routable(ret.req) =>
              /\ ret.out.responses = <<>>
              /\ ret.out.proxied[1].path = ret.req.path
              /\ ret.out.proxied[1].ctx.requestInfo
              /\ ret.out.proxied[1].ctx.shardURL =
                     Parse(ShardIndex[ClusterNameOf(ret.req.path)]).url
        /\ ~Routable(ret.req) =>
              /\ Len(ret.out.responses) = 1
              /\ ret.out.responses[1] \in ResponsesFor(ret.req)
              /\ ~HasClusterForm(ret.req.path) => ret.out.responses[1] = "NotFound"

\* the request /clusters/root:org/clusters has been forwarded with the URL of
\* the shard of root:org in its context
C40_Witness ==
    /\ ret.op = "shardHandler"
    /\ ret.req.path = <<"/", "clusters", "/", "root:org", "/", "clusters">>
    /\ ret.out.responses = <<>>
    /\ Len(ret.out.proxied) = 1
    /\ ret.out.proxied[1].ctx.shardURL.Host = "shard-1.example.dev:6443"
====
